---- MODULE Spec2Model ----
(***************************************************************************)
(* Model of the "I Luv Suits" simulation engine: the seeded RNG, the deck  *)
(* and shuffle, the hand evaluator, the bet resolver and the per-hand loop *)
(* of performSimulation (simulation-core.ts) and of the older simulateHands*)
(* of simulation.ts.                                                       *)
(***************************************************************************)
EXTENDS Integers, Sequences, FiniteSets, TLC

(***************************************************************************)
(* State.  The inputs of a call; then, per call under way, the locals of   *)
(* the simulation function: the generator, the position in the hand loop,  *)
(* the accumulators, what the last hand dealt, and the value returned.     *)
(* simulateHands of simulation.ts has three locals more.  The last three   *)
(* variables hold one application of a helper function to an argument.     *)
(***************************************************************************)
VARIABLES
  numHands, payoutConfig, minThreeCardFlushRank, randomSeed,
  rng, pc, hand, deck, betTotals, handsAboveMinimum, handsBelowMinimum,
  playerHand, dealerHand, playerFlush, dealerFlush, playerStraightLength,
  summary,
  threeCardStats, playWager, playerStraightFlush,
  fn, arg, ret,
  workerCount, hardwareConcurrency, handsPerWorker, workers, channel,
  perWorkerProgress, reported, workerPromises, settled, promise, sent,
  progressCalls, cancelRequested

(***************************************************************************)
(* 32-bit words.  TLC's integers are 32-bit signed, so a JavaScript number *)
(* holding an unsigned 32-bit pattern (or the un-wrapped closure variable  *)
(* t of mulberry32) is kept as <<hi, lo>> meaning hi * 2^16 + lo, with     *)
(* lo in 0..65535.                                                         *)
(***************************************************************************)
Half == 65536

\* n as a word (n >= 0 fits TLC's integers; a negative n gives n >>> 0)
ToWord(n) == <<n \div Half, n % Half>>

\* ToUint32: the low 32 bits of the number
ToUint32(w) == <<w[1] % Half, w[2]>>

RECURSIVE XorBits(_, _)
\* bitwise exclusive or, bit by bit
XorBits(a, b) ==
  IF a = 0 THEN b
  ELSE IF b = 0 THEN a
  ELSE ((a + b) % 2) + 2 * XorBits(a \div 2, b \div 2)

\* the exclusive or of two 4-bit digits, tabulated
XorTable == [a \in 0..15 |-> [b \in 0..15 |-> XorBits(a, b)]]

\* bitwise exclusive or of two 16-bit halves, digit by digit
Xor16(a, b) ==
    XorTable[a % 16][b % 16]
  + 16 * XorTable[(a \div 16) % 16][(b \div 16) % 16]
  + 256 * XorTable[(a \div 256) % 16][(b \div 256) % 16]
  + 4096 * XorTable[a \div 4096][b \div 4096]

\* x ^ y on 32-bit patterns
XorW(x, y) == <<Xor16(x[1], y[1]), Xor16(x[2], y[2])>>

\* x >>> k for 0 < k < 16, with p = 2^k and q = 2^(16-k)
ShrW(x, p, q) == <<x[1] \div p, (x[2] \div p) + (x[1] % p) * q>>

\* (x + y) mod 2^32
AddW(x, y) ==
  LET lo == x[2] + y[2]
  IN  <<(x[1] + y[1] + (lo \div Half)) % Half, lo % Half>>

\* the low 16 bits of a * b, a and b 16-bit halves
MulLo16(a, b) == ((a * (b % 256)) + ((a * (b \div 256)) % 256) * 256) % Half

\* Math.imul(x, y): the low 32 bits of the product
Imul(x, y) ==
  LET u   == x[2] * (y[2] % 256)
      v   == x[2] * (y[2] \div 256)
      s   == u + (v % 256) * 256
      phi == (s \div Half) + (v \div 256)
  IN  <<(phi + MulLo16(x[1], y[2]) + MulLo16(x[2], y[1])) % Half, s % Half>>

\* 1 | x
Or1(x) == <<x[1], x[2] + 1 - (x[2] % 2)>>

\* x | 61  (61 = 111101b: every bit of the low six but bit 1 is set)
Or61(x) == <<x[1], x[2] - (x[2] % 64) + 61 + 2 * ((x[2] \div 2) % 2)>>

(***************************************************************************)
(* mulberry32.  The generator is the closure variable t; it is advanced by *)
(* t += 0x6D2B79F5 (a plain number addition, never wrapped by the code) and*)
(* the output is computed from the low 32 bits of t.                       *)
(***************************************************************************)
\* 0x6D2B79F5 = 27947 * 2^16 + 31221
MulberryIncHi == 27947
MulberryIncLo == 31221

\* A generator (the type RNG) is a record: the closure mulberry32 returns,
\* with its variable t, or a generator that returns the 32-bit values of a
\* given list, each divided by 2^32, in order (crypto.getRandomValues, a
\* stub, Math.random to 32 bits).
\* mulberry32(seed): let t = seed >>> 0
mulberry32(seed) == [kind |-> "mulberry32", t |-> ToUint32(ToWord(seed))]

\* t += 0x6D2B79F5
RngAdvance(t) ==
  LET lo == t[2] + MulberryIncLo
  IN  <<t[1] + MulberryIncHi + (lo \div Half), lo % Half>>

\* the 32-bit integer whose quotient by 2^32 the generator returns, from
\* the already advanced t
RngOutput(t) ==
  LET t32 == ToUint32(t)
      r1  == Imul(XorW(t32, ShrW(t32, 32768, 2)), Or1(t32))
      r2  == XorW(r1, AddW(r1, Imul(XorW(r1, ShrW(r1, 128, 512)), Or61(r1))))
  IN  XorW(r2, ShrW(r2, 16384, 4))

\* rng(): the 32-bit numerator of the value returned, and the generator
\* after the call
CallRng(g) ==
  IF g.kind = "mulberry32"
  THEN LET t2 == RngAdvance(g.t)
       IN  [value |-> RngOutput(t2), rng |-> [g EXCEPT !.t = t2]]
  ELSE [value |-> Head(g.draws), rng |-> [g EXCEPT !.draws = Tail(@)]]

\* Math.floor(x / 4294967296 * n) for a 32-bit x and 1 <= n <= 52 (exact in
\* double precision: x * n < 2^38)
ScaleFloor(x, n) == (x[1] * n + ((x[2] * n) \div Half)) \div Half

(***************************************************************************)
(* Deck and shuffle                                                        *)
(***************************************************************************)
Suits == <<"spade", "heart", "diamond", "club">>
Ranks == <<2, 3, 4, 5, 6, 7, 8, 9, 10, 11, 12, 13, 14>>

createDeck ==
  [k \in 1..(Len(Suits) * Len(Ranks)) |->
     [rank |-> Ranks[((k - 1) % Len(Ranks)) + 1],
      suit |-> Suits[((k - 1) \div Len(Ranks)) + 1]]]

RECURSIVE ShuffleLoop(_, _, _)
\* the loop of shuffleDeckWithRng from index i (0-based) down to 1; yields
\* the shuffled array and the generator after the draws.  (The test on Len
\* makes TLC compute each swap before it descends.)
ShuffleLoop(shuffled, g, i) ==
  IF i <= 0 THEN [deck |-> shuffled, rng |-> g]
  ELSE LET call    == CallRng(g)
           j       == ScaleFloor(call.value, i + 1)
           swapped == [shuffled EXCEPT ![i + 1] = shuffled[j + 1],
                                       ![j + 1] = shuffled[i + 1]]
       IN  IF Len(swapped) = Len(shuffled) /\ call.value[2] >= 0
           THEN ShuffleLoop(swapped, call.rng, i - 1)
           ELSE [deck |-> shuffled, rng |-> g]

\* faulty variant: the shuffle draws from one generator shared by all runs, not
\* from the generator it is given
shuffleDeckSharedRng(cards, g) ==
  [input |-> cards] @@ ShuffleLoop(cards, rng["A"], Len(cards) - 1)

\* faulty variant: the loop swaps the cards of the array it was given
shuffleDeckInPlace(cards, g) ==
  [deck  |-> ShuffleLoop(cards, g, Len(cards) - 1).deck,
   rng   |-> ShuffleLoop(cards, g, Len(cards) - 1).rng,
   input |-> ShuffleLoop(cards, g, Len(cards) - 1).deck]

\* shuffleDeckWithRng(deck, rng): the array returned, the generator after
\* the call, and the array passed in as the call leaves it (the loop works
\* on the copy [...deck])
shuffleDeckWithRng(cards, g) ==
  [input |-> cards] @@ ShuffleLoop(cards, g, Len(cards) - 1)

(***************************************************************************)
(* Hand evaluator                                                          *)
(***************************************************************************)
getSuitOrder(suit) ==
  CASE suit = "spade"   -> 0
    [] suit = "heart"   -> 1
    [] suit = "diamond" -> 2
    [] suit = "club"    -> 3

\* faulty variant: within a suit the lower rank sorts first
SuitThenAscendingRank(a, b) ==
  LET suitDiff == getSuitOrder(a.suit) - getSuitOrder(b.suit)
  IN  IF suitDiff # 0 THEN suitDiff ELSE a.rank - b.rank

\* the comparator of sortHandBySuitThenRank: negative when a sorts before b
SuitThenRank(a, b) ==
  LET suitDiff == getSuitOrder(a.suit) - getSuitOrder(b.suit)
  IN  IF suitDiff # 0 THEN suitDiff ELSE b.rank - a.rank

RECURSIVE InsertCard(_, _, _)
\* c placed in the sorted s behind every element that does not sort after
\* it (Array.prototype.sort is stable), scanning from position k
InsertCard(c, s, k) ==
  IF k > Len(s) THEN Append(s, c)
  ELSE IF SuitThenRank(s[k], c) > 0
       THEN SubSeq(s, 1, k - 1) \o <<c>> \o SubSeq(s, k, Len(s))
       ELSE InsertCard(c, s, k + 1)

RECURSIVE SortLoop(_, _, _)
SortLoop(cards, k, sorted) ==
  IF k > Len(cards) THEN sorted
  ELSE SortLoop(cards, k + 1, InsertCard(cards[k], sorted, 1))

\* [...cards].sort(comparator): the sorted copy, and the array that was
\* passed in as the call leaves it
SortOfCopy(cards) == [result |-> SortLoop(cards, 1, <<>>), input |-> cards]

\* [...cards].sort(comparator): a new array, the input untouched
sortHandBySuitThenRank(cards) == SortOfCopy(cards).result

RECURSIVE DivideLoop(_, _, _)
\* the forEach of divideHandIntoSuits; the groups are kept in the order in
\* which their suits first appear (the key order of the JavaScript object)
DivideLoop(cards, k, groups) ==
  IF k > Len(cards) THEN groups
  ELSE LET card == cards[k]
           at   == {g \in 1..Len(groups) : groups[g][1].suit = card.suit}
       IN  IF at = {}
           THEN DivideLoop(cards, k + 1, Append(groups, <<card>>))
           ELSE LET g == CHOOSE g \in at : TRUE
                IN  DivideLoop(cards, k + 1,
                               [groups EXCEPT ![g] = Append(groups[g], card)])

divideHandIntoSuits(cards) == DivideLoop(cards, 1, <<>>)

RECURSIVE CompareRanks(_, _, _)
\* the for loop of compareFlushes from index i (1-based)
CompareRanks(firstFlush, secondFlush, i) ==
  IF i > Len(firstFlush) \/ i > Len(secondFlush) THEN 0
  ELSE LET rankDiff == firstFlush[i].rank - secondFlush[i].rank
       IN  IF rankDiff # 0 THEN rankDiff
           ELSE CompareRanks(firstFlush, secondFlush, i + 1)

\* faulty variant: the ranks are compared before the lengths
compareFlushesRanksFirst(firstFlush, secondFlush) ==
  LET rankDiff == CompareRanks(firstFlush, secondFlush, 1)
  IN  IF rankDiff # 0 THEN rankDiff
      ELSE Len(firstFlush) - Len(secondFlush)

\* faulty variant: flushes of equal length and ranks go to the first one
compareFlushesTieToFirst(firstFlush, secondFlush) ==
  LET lengthDiff == Len(firstFlush) - Len(secondFlush)
      rankDiff   == CompareRanks(firstFlush, secondFlush, 1)
  IN  IF lengthDiff # 0 THEN lengthDiff
      ELSE IF rankDiff # 0 THEN rankDiff
      ELSE 1

compareFlushes(firstFlush, secondFlush) ==
  LET lengthDiff == Len(firstFlush) - Len(secondFlush)
  IN  IF lengthDiff # 0 THEN lengthDiff
      ELSE CompareRanks(firstFlush, secondFlush, 1)

RECURSIVE BestFlushReduce(_, _, _)
\* Object.values(suitGroups).reduce(..., [])
BestFlushReduce(groups, k, bestFlush) ==
  IF k > Len(groups) THEN bestFlush
  ELSE BestFlushReduce(groups, k + 1,
         IF compareFlushes(groups[k], bestFlush) > 0 THEN groups[k]
         ELSE bestFlush)

\* faulty variant: the first suit group is returned, whatever the others hold
findBestFlushFirstGroup(cards) ==
  IF Len(cards) = 0 THEN <<>> ELSE divideHandIntoSuits(cards)[1]

findBestFlush(cards) == BestFlushReduce(divideHandIntoSuits(cards), 1, <<>>)

\* the high card rank of the flush, 0 for an empty flush
highCard(flush) == IF Len(flush) > 0 THEN flush[1].rank ELSE 0

Max(a, b) == IF a >= b THEN a ELSE b

RECURSIVE StraightLoop(_, _, _, _, _)
\* the while loop of findLongestStraight: index i (0-based), previous rank,
\* current run length, longest run so far
StraightLoop(flush, i, prev, length, longest) ==
  IF i >= Len(flush) THEN Max(longest, length)
  ELSE LET current == flush[i + 1].rank
       IN  IF current = prev - 1
           THEN StraightLoop(flush, i + 1, current, length + 1, longest)
           ELSE StraightLoop(flush, i + 1, current, 1, Max(longest, length))

\* longest run of consecutive ranks, the ace high (14)
findLongestStraight(flush) ==
  IF Len(flush) = 0 THEN 0
  ELSE StraightLoop(flush, 1, flush[1].rank, 1, 0)

RECURSIVE LowAceLoop(_, _, _, _, _)
\* the while loop of findLowAceStraight: it walks the flush from its last
\* card back to its first, i counting down to 0
LowAceLoop(flush, i, prev, length, longest) ==
  IF i <= 0 THEN Max(longest, length)
  ELSE LET current == flush[i].rank
       IN  IF current = prev + 1
           THEN LowAceLoop(flush, i - 1, current, length + 1, longest)
           ELSE LowAceLoop(flush, i - 1, current, 1, Max(longest, length))

\* longest run counting the ace as 1
findLowAceStraight(flush) ==
  IF Len(flush) = 0 THEN 0
  ELSE IF highCard(flush) = 14 THEN LowAceLoop(flush, Len(flush), 1, 1, 0)
  ELSE 0

RECURSIVE StraightFlushLoop(_, _, _)
StraightFlushLoop(groups, k, longest) ==
  IF k > Len(groups) THEN longest
  ELSE StraightFlushLoop(groups, k + 1,
         Max(Max(longest, findLongestStraight(groups[k])),
             findLowAceStraight(groups[k])))

\* faulty variant: the two checks of a suit are added
findLongestStraightFlushSum(cards) ==
  LET groups == divideHandIntoSuits(cards)
      sums   == {findLongestStraight(groups[k]) + findLowAceStraight(groups[k]) :
                   k \in 1..Len(groups)} \cup {0}
  IN  CHOOSE m \in sums : \A x \in sums : x <= m

\* the length of the longest straight flush of the hand
findLongestStraightFlush(cards) ==
  StraightFlushLoop(divideHandIntoSuits(cards), 1, 0)

(***************************************************************************)
(* Bet resolver                                                            *)
(***************************************************************************)
\* faulty variant: a 3-card flush needs a high card above 9
dealerQualifiesAboveNine(flush) ==
  IF Len(flush) > 3 THEN TRUE
  ELSE IF Len(flush) < 3 THEN FALSE
  ELSE highCard(flush) > 9

dealerQualifies(flush) ==
  IF Len(flush) > 3 THEN TRUE
  ELSE IF Len(flush) < 3 THEN FALSE
  ELSE highCard(flush) >= 9

\* faulty variant: a 3-card flush whose high card equals the minimum is folded
playerShouldFoldAtMinimum(flush, minRank) ==
  Len(flush) < 3 \/ (Len(flush) = 3 /\ minRank # 0 /\ highCard(flush) <= minRank)

playerShouldFold(flush, minRank) ==
  Len(flush) < 3 \/ (Len(flush) = 3 /\ minRank # 0 /\ highCard(flush) < minRank)

\* faulty variant: the 3x tier starts at 5 cards
getMaxPlayWagerFiveAsSix(flushCards, ante) ==
  IF flushCards >= 5 THEN ante * 3 ELSE ante * 1

getMaxPlayWager(flushCards, anteAmount) ==
  IF flushCards >= 6 THEN anteAmount * 3
  ELSE IF flushCards >= 5 THEN anteAmount * 2
  ELSE anteAmount * 1

\* faulty variant: the lowest paying tier starts above 4 cards
calculateFlushRushPayoutAboveFour(flushCards, cfg) ==
  IF flushCards >= 7 THEN cfg.flushRush.sevenCard
  ELSE IF flushCards >= 6 THEN cfg.flushRush.sixCard
  ELSE IF flushCards >= 5 THEN cfg.flushRush.fiveCard
  ELSE IF flushCards > 4 THEN cfg.flushRush.fourCard
  ELSE 0

calculateFlushRushPayout(flushCards, cfg) ==
  IF flushCards >= 7 THEN cfg.flushRush.sevenCard
  ELSE IF flushCards >= 6 THEN cfg.flushRush.sixCard
  ELSE IF flushCards >= 5 THEN cfg.flushRush.fiveCard
  ELSE IF flushCards >= 4 THEN cfg.flushRush.fourCard
  ELSE 0

\* faulty variant: the lowest paying tier starts above 3 cards
calculateSuperFlushRushPayoutAboveThree(straightFlushCards, cfg) ==
  IF straightFlushCards >= 7 THEN cfg.superFlushRush.sevenCardStraight
  ELSE IF straightFlushCards >= 6 THEN cfg.superFlushRush.sixCardStraight
  ELSE IF straightFlushCards >= 5 THEN cfg.superFlushRush.fiveCardStraight
  ELSE IF straightFlushCards >= 4 THEN cfg.superFlushRush.fourCardStraight
  ELSE IF straightFlushCards > 3 THEN cfg.superFlushRush.threeCardStraight
  ELSE 0

calculateSuperFlushRushPayout(straightFlushCards, cfg) ==
  IF straightFlushCards >= 7 THEN cfg.superFlushRush.sevenCardStraight
  ELSE IF straightFlushCards >= 6 THEN cfg.superFlushRush.sixCardStraight
  ELSE IF straightFlushCards >= 5 THEN cfg.superFlushRush.fiveCardStraight
  ELSE IF straightFlushCards >= 4 THEN cfg.superFlushRush.fourCardStraight
  ELSE IF straightFlushCards >= 3 THEN cfg.superFlushRush.threeCardStraight
  ELSE 0

\* new BetResults()
BetResults == [totalBet |-> 0, totalWon |-> 0, handsWon |-> 0, handsLost |-> 0]

\* faulty variant: a win credits the winnings without returning the stake
recordWinWithoutStake(b, bet, won) ==
  [b EXCEPT !.handsWon = @ + 1, !.totalBet = @ + bet, !.totalWon = @ + won]

recordWin(b, bet, won) ==
  [b EXCEPT !.handsWon = @ + 1, !.totalBet = @ + bet, !.totalWon = @ + bet + won]

\* faulty variant: a loss does not count the stake
recordLossWithoutStake(b, bet) ==
  [b EXCEPT !.handsLost = @ + 1]

recordLoss(b, bet) ==
  [b EXCEPT !.handsLost = @ + 1, !.totalBet = @ + bet]

\* faulty variant: a push keeps the stake
recordPushKeepsStake(b, bet) ==
  [b EXCEPT !.totalBet = @ + bet]

recordPush(b, bet) ==
  [b EXCEPT !.totalBet = @ + bet, !.totalWon = @ + bet]

(***************************************************************************)
(* Simulation driver: performSimulation                                    *)
(***************************************************************************)
anteAmount == 1
flushRushBet == 1
superFlushRushBet == 1
HandSize == 7

BaseGame == "Base Game (Ante + Play)"
FlushRushBonus == "Flush Rush Bonus"
SuperFlushRushBonus == "Super Flush Rush Bonus"
\* Object.keys(betTotals), in insertion order
BetTypes == <<BaseGame, FlushRushBonus, SuperFlushRushBonus>>

RECURSIVE GCD(_, _)
GCD(a, b) == IF b = 0 THEN a ELSE GCD(b, a % b)

Abs(n) == IF n < 0 THEN -n ELSE n

\* (n / d) * 100 in floating point: NaN for 0 / 0, an infinity for n / 0,
\* otherwise the number, kept as the reduced fraction 100 n / d
Percent(n, d) ==
  IF d = 0
  THEN [kind |-> IF n = 0 THEN "NaN" ELSE IF n > 0 THEN "Infinity" ELSE "-Infinity",
        num |-> 0, den |-> 0]
  ELSE LET g == GCD(Abs(100 * n), Abs(d))
       IN  [kind |-> "finite",
            num |-> (IF d < 0 THEN -1 ELSE 1) * ((100 * n) \div g),
            den |-> Abs(d) \div g]

\* faulty variant: the dealer's qualification is looked at before the fold
ResolveBaseGameDealerFirst(b, pFlush, dFlush, minRank) ==
  LET play       == getMaxPlayWager(Len(pFlush), anteAmount)
      totalWager == anteAmount + play
  IN  IF ~dealerQualifies(dFlush) THEN recordWin(b, anteAmount, anteAmount)
      ELSE IF playerShouldFold(pFlush, minRank) THEN recordLoss(b, anteAmount)
      ELSE LET comparison == compareFlushes(pFlush, dFlush)
           IN  IF comparison > 0 THEN recordWin(b, totalWager, totalWager)
               ELSE IF comparison < 0 THEN recordLoss(b, totalWager)
               ELSE recordPush(b, totalWager)

\* faulty variant: the flushes are compared before the dealer's qualification
ResolveBaseGameCompareFirst(b, pFlush, dFlush, minRank) ==
  IF playerShouldFold(pFlush, minRank) THEN recordLoss(b, anteAmount)
  ELSE LET play       == getMaxPlayWager(Len(pFlush), anteAmount)
           totalWager == anteAmount + play
           comparison == compareFlushes(pFlush, dFlush)
       IN  IF comparison < 0 THEN recordLoss(b, totalWager)
           ELSE IF ~dealerQualifies(dFlush) THEN recordWin(b, totalWager, anteAmount)
           ELSE IF comparison > 0 THEN recordWin(b, totalWager, totalWager)
           ELSE recordPush(b, totalWager)

\* the base game of one hand: fold, or play and resolve against the dealer
ResolveBaseGame(b, pFlush, dFlush, minRank) ==
  IF playerShouldFold(pFlush, minRank) THEN recordLoss(b, anteAmount)
  ELSE LET play       == getMaxPlayWager(Len(pFlush), anteAmount)
           totalWager == anteAmount + play
       IN  IF dealerQualifies(dFlush)
           THEN LET comparison == compareFlushes(pFlush, dFlush)
                IN  IF comparison > 0 THEN recordWin(b, totalWager, totalWager)
                    ELSE IF comparison < 0 THEN recordLoss(b, totalWager)
                    ELSE recordPush(b, totalWager)
           ELSE recordWin(b, totalWager, anteAmount)

\* faulty variant: the side bet is skipped on a hand too short to be played
ResolveFlushRushSkipsShortFlush(b, pFlush, cfg) ==
  LET flushRushMultiplier == calculateFlushRushPayout(Len(pFlush), cfg)
      flushRushPayout == IF flushRushMultiplier > 0
                         THEN flushRushBet * flushRushMultiplier ELSE 0
  IN  IF Len(pFlush) < 3 THEN b
      ELSE IF flushRushPayout > 0 THEN recordWin(b, flushRushBet, flushRushPayout)
      ELSE recordLoss(b, flushRushBet)

\* the Flush Rush side bet of one hand
ResolveFlushRush(b, pFlush, cfg) ==
  LET flushRushMultiplier == calculateFlushRushPayout(Len(pFlush), cfg)
      flushRushPayout == IF flushRushMultiplier > 0
                         THEN flushRushBet * flushRushMultiplier ELSE 0
  IN  IF flushRushPayout > 0 THEN recordWin(b, flushRushBet, flushRushPayout)
      ELSE recordLoss(b, flushRushBet)

\* the Super Flush Rush side bet of one hand
ResolveSuperFlushRush(b, straightLength, cfg) ==
  LET superFlushRushMultiplier == calculateSuperFlushRushPayout(straightLength, cfg)
      superFlushRushPayout == IF superFlushRushMultiplier > 0
                              THEN superFlushRushBet * superFlushRushMultiplier ELSE 0
  IN  IF superFlushRushPayout > 0
      THEN recordWin(b, superFlushRushBet, superFlushRushPayout)
      ELSE recordLoss(b, superFlushRushBet)

\* one SimulationResult of the summary
SimulationResult(betType, data) ==
  [betType        |-> betType,
   totalBet       |-> data.totalBet,
   totalWon       |-> data.totalWon,
   expectedReturn |-> Percent(data.totalWon - data.totalBet, data.totalBet),
   handsWon       |-> data.handsWon,
   handsLost      |-> data.handsLost,
   winRate        |-> Percent(data.handsWon, data.handsWon + data.handsLost)]

\* faulty variant: totalHands counts the played hands only
HandDistributionStatsPlayedOnly(n, above, below) ==
  [totalHands             |-> above,
   aboveMinimum           |-> above,
   belowMinimum           |-> below,
   aboveMinimumPercentage |-> Percent(above, n),
   belowMinimumPercentage |-> Percent(below, n)]

HandDistributionStats(n, above, below) ==
  [totalHands             |-> n,
   aboveMinimum           |-> above,
   belowMinimum           |-> below,
   aboveMinimumPercentage |-> Percent(above, n),
   belowMinimumPercentage |-> Percent(below, n)]

\* the value returned by performSimulation
SimulationSummary(totals, n, above, below) ==
  [results |-> [k \in 1..Len(BetTypes) |-> SimulationResult(BetTypes[k], totals[BetTypes[k]])],
   handDistribution |-> HandDistributionStats(n, above, below)]

\* the summary slot of a run that has not returned yet
NoSummary == [results |-> <<>>, handDistribution |-> HandDistributionStats(0, 0, 0)]

(***************************************************************************)
(* Inputs                                                                  *)
(***************************************************************************)
MaxHands == 2

\* seeds whose first hands cover every branch of the resolver; the first
\* hand of 1126 is a push
Seeds == {1, 4, 5, 16, 33, 263, 303, 336, 969, 1068, 1126, 5163}

\* minimum high card of a playable 3-card flush; 0 = no minimum
Thresholds == {0, 9, 14}

DefaultPayouts ==
  [flushRush |-> [sevenCard |-> 100, sixCard |-> 20, fiveCard |-> 10, fourCard |-> 2],
   superFlushRush |-> [sevenCardStraight |-> 500, sixCardStraight |-> 200,
                       fiveCardStraight |-> 100, fourCardStraight |-> 50,
                       threeCardStraight |-> 9]]

\* a table whose lowest tiers pay nothing
SparsePayouts ==
  [flushRush |-> [sevenCard |-> 300, sixCard |-> 100, fiveCard |-> 0, fourCard |-> 0],
   superFlushRush |-> [sevenCardStraight |-> 1000, sixCardStraight |-> 500,
                       fiveCardStraight |-> 100, fourCardStraight |-> 0,
                       threeCardStraight |-> 0]]

PayoutConfigs == {DefaultPayouts, SparsePayouts}

\* the two runs of a reproducibility experiment
Runs == {"A", "B"}

inputs == <<numHands, payoutConfig, minThreeCardFlushRank, randomSeed>>
locals == <<playerHand, dealerHand, playerFlush, dealerFlush, playerStraightLength>>
legacyLocals == <<threeCardStats, playWager, playerStraightFlush>>
application == <<fn, arg, ret>>
pool == <<workerCount, hardwareConcurrency, handsPerWorker, workers, channel,
          perWorkerProgress, reported, workerPromises, settled, promise, sent>>
vars == <<inputs, rng, pc, hand, deck, betTotals, handsAboveMinimum,
          handsBelowMinimum, locals, summary, legacyLocals, application, pool,
          progressCalls, cancelRequested>>

\* the promise of runSimulationInWorkers before it settles
Pending == [state |-> "pending"]

\* runSimulationInWorkers has not been called
NoPool ==
  /\ workerCount = <<>>
  /\ hardwareConcurrency = <<>>
  /\ handsPerWorker = <<>>
  /\ workers = <<>>
  /\ channel = <<>>
  /\ perWorkerProgress = <<>>
  /\ reported = <<>>
  /\ workerPromises = <<>>
  /\ settled = FALSE
  /\ promise = Pending
  /\ sent = <<>>

\* no helper function is being applied
NoApplication == fn = "none" /\ arg = <<>> /\ ret = <<>>

\* the locals of the calls in R at the top of the function, each call with
\* the generator made from the seed seedOf[r]
CallsStart(R, seedOf) ==
  /\ rng = [r \in R |-> mulberry32(seedOf[r])]
  /\ pc = [r \in R |-> "loop"]
  /\ hand = [r \in R |-> 0]
  /\ deck = [r \in R |-> createDeck]
  /\ betTotals = [r \in R |-> [k \in {BaseGame, FlushRushBonus, SuperFlushRushBonus} |-> BetResults]]
  /\ handsAboveMinimum = [r \in R |-> 0]
  /\ handsBelowMinimum = [r \in R |-> 0]
  /\ playerHand = [r \in R |-> <<>>]
  /\ dealerHand = [r \in R |-> <<>>]
  /\ playerFlush = [r \in R |-> <<>>]
  /\ dealerFlush = [r \in R |-> <<>>]
  /\ playerStraightLength = [r \in R |-> 0]
  /\ summary = [r \in R |-> NoSummary]
  /\ threeCardStats = [r \in R |-> <<>>]
  /\ playWager = [r \in R |-> 0]
  /\ playerStraightFlush = [r \in R |-> <<>>]
  /\ progressCalls = [r \in R |-> <<>>]
  /\ cancelRequested = FALSE

\* both runs are called with the same arguments, each with its own
\* mulberry32(randomSeed)
Init ==
  /\ numHands \in -1..MaxHands
  /\ payoutConfig \in PayoutConfigs
  /\ minThreeCardFlushRank \in Thresholds
  /\ randomSeed \in Seeds
  /\ CallsStart(Runs, [r \in Runs |-> randomSeed])
  /\ NoApplication
  /\ NoPool

\* faulty variant: every slice starts at the first card
sliceFromStart(cards, start, end) == SubSeq(cards, 1, end - start)

\* cards.slice(start, end) for 0 <= start <= end <= cards.length
slice(cards, start, end) == SubSeq(cards, start + 1, end)

\* the body of the hand loop of performSimulation(n, ...) in run r, up to
\* the progress report.  Each local is bound by a quantifier over a
\* one-element set, so that it is computed once.
HandLoopBody(r, n) ==
  /\ hand[r] < n
  /\ \E sh \in {shuffleDeckWithRng(deck[r], rng[r])} :
     \E pHand \in {sortHandBySuitThenRank(slice(sh.deck, 0, HandSize))} :
     \E dHand \in {sortHandBySuitThenRank(slice(sh.deck, HandSize, 2 * HandSize))} :
     \E pFlush \in {findBestFlush(pHand)} :
     \E dFlush \in {findBestFlush(dHand)} :
     \E sLength \in {findLongestStraightFlush(pHand)} :
     \E fold \in {playerShouldFold(pFlush, minThreeCardFlushRank)} :
         /\ rng' = [rng EXCEPT ![r] = sh.rng]
         /\ deck' = [deck EXCEPT ![r] = sh.input]
         /\ playerHand' = [playerHand EXCEPT ![r] = pHand]
         /\ dealerHand' = [dealerHand EXCEPT ![r] = dHand]
         /\ playerFlush' = [playerFlush EXCEPT ![r] = pFlush]
         /\ dealerFlush' = [dealerFlush EXCEPT ![r] = dFlush]
         /\ playerStraightLength' = [playerStraightLength EXCEPT ![r] = sLength]
         /\ handsBelowMinimum' =
              [handsBelowMinimum EXCEPT ![r] = IF fold THEN @ + 1 ELSE @]
         /\ handsAboveMinimum' =
              [handsAboveMinimum EXCEPT ![r] = IF fold THEN @ ELSE @ + 1]
         /\ betTotals' = [betTotals EXCEPT
              ![r][BaseGame] =
                 ResolveBaseGame(@, pFlush, dFlush, minThreeCardFlushRank),
              ![r][FlushRushBonus] = ResolveFlushRush(@, pFlush, payoutConfig),
              ![r][SuperFlushRushBonus] =
                 ResolveSuperFlushRush(@, sLength, payoutConfig)]
  /\ hand' = [hand EXCEPT ![r] = @ + 1]

\* const updateFrequency = Math.max(1, Math.floor(numHands / 100))
updateFrequency(n) == Max(1, n \div 100)

\* faulty variant: the report is made of the hands still to play
ProgressOfHandsLeft(h, n) ==
  IF h % updateFrequency(n) = 0 THEN <<Percent(n - h, n)>> ELSE <<>>

\* if (onProgress && hand % updateFrequency === 0) onProgress((hand /
\* numHands) * 100): the values passed to onProgress in iteration h of a run
\* of n hands
ProgressOf(h, n) ==
  IF h % updateFrequency(n) = 0 THEN <<Percent(h, n)>> ELSE <<>>

\* one iteration of the hand loop of run r, called without onProgress (the
\* loop then never yields)
SimulateHand(r) ==
  /\ pc[r] = "loop"
  /\ HandLoopBody(r, numHands)
  /\ UNCHANGED <<inputs, pc, summary, legacyLocals, application, pool,
                 progressCalls, cancelRequested>>

\* the loop of run r is over: build and return the summary
Finish(r) ==
  /\ pc[r] = "loop"
  /\ hand[r] >= numHands
  /\ summary' = [summary EXCEPT ![r] =
       SimulationSummary(betTotals[r], numHands, handsAboveMinimum[r],
                         handsBelowMinimum[r])]
  /\ pc' = [pc EXCEPT ![r] = "done"]
  /\ UNCHANGED <<inputs, rng, hand, deck, betTotals, handsAboveMinimum,
                 handsBelowMinimum, locals, legacyLocals, application, pool,
                 progressCalls, cancelRequested>>

Next ==
  \E r \in Runs :
    \/ SimulateHand(r)
    \/ Finish(r)

Spec == Init /\ [][Next]_vars

\* one iteration of the hand loop of run r when the caller passed onProgress:
\* the hand, the report, and the await of setTimeout(resolve, 0) after which
\* any other task may run before the next iteration
SimulateHandReporting(r) ==
  /\ pc[r] = "loop"
  /\ HandLoopBody(r, numHands)
  /\ progressCalls' = [progressCalls EXCEPT
                         ![r] = @ \o ProgressOf(hand[r], numHands)]
  /\ UNCHANGED <<inputs, pc, summary, legacyLocals, application, pool, cancelRequested>>

\* the caller gives up while a run is in its hand loop (a timeout, a click
\* on a cancel button).  performSimulation(numHands, payoutConfig,
\* minThreeCardFlushRank, rng, onProgress) takes no signal and reads no
\* shared flag, so the request changes nothing a run can see.
CallerCancels ==
  /\ ~cancelRequested
  /\ \E r \in Runs : pc[r] = "loop"
  /\ cancelRequested' = TRUE
  /\ UNCHANGED <<inputs, rng, pc, hand, deck, betTotals, handsAboveMinimum,
                 handsBelowMinimum, locals, summary, legacyLocals, application,
                 pool, progressCalls>>

\* run A is called with an onProgress callback and run B without one, on the
\* same seed and inputs
ProgressNext ==
  \/ SimulateHandReporting("A")
  \/ SimulateHand("B")
  \/ \E r \in Runs : Finish(r)
  \/ CallerCancels

ProgressSpec == Init /\ [][ProgressNext]_vars

(***************************************************************************)
(* simulation.ts: the engine the page calls.  Its createDeck, sorting,     *)
(* findBestFlush, dealerQualifies, compareFlushes and payout lookups are   *)
(* the same functions as above; what differs is modelled here.             *)
(***************************************************************************)
\* Math.random is not seeded: each shuffle may draw any stream of values.
\* The streams offered are those of the generators with these seeds.
MathRandom == {1, 13, 20, 33, 36, 336, 1126, 1548}

\* shuffleDeck(deck): the arrays a Fisher-Yates shuffle over such a stream
\* can return
shuffleDeck(cards) ==
  {shuffleDeckWithRng(cards, mulberry32(s)).deck : s \in MathRandom}

\* strings are kept as sequences of characters
DigitChars == <<"0", "1", "2", "3", "4", "5", "6", "7", "8", "9">>

RECURSIVE NumberToString(_)
\* Number.prototype.toString of a non-negative integer
NumberToString(n) ==
  IF n < 10 THEN <<DigitChars[n + 1]>>
  ELSE NumberToString(n \div 10) \o <<DigitChars[(n % 10) + 1]>>

getRankDisplay(rank) ==
  IF rank = 14 THEN <<"A">>
  ELSE IF rank = 13 THEN <<"K">>
  ELSE IF rank = 12 THEN <<"Q">>
  ELSE IF rank = 11 THEN <<"J">>
  ELSE NumberToString(rank)

\* the template `${highest}-${secondHighest}` of a 3-card flush
TwoHighestKey(flush) ==
  getRankDisplay(flush[1].rank) \o <<"-">> \o getRankDisplay(flush[2].rank)

RECURSIVE LegacyRunFrom(_, _, _, _)
\* the inner loop of findLongestStraightFlush: extend the run that ends at
\* currentValue with the cards from position j (1-based) on
LegacyRunFrom(suitCards, j, currentValue, straight) ==
  IF j > Len(suitCards) THEN straight
  ELSE LET nextValue == suitCards[j].rank
       IN  IF nextValue = currentValue - 1
           THEN LegacyRunFrom(suitCards, j + 1, nextValue,
                              Append(straight, suitCards[j]))
           ELSE IF nextValue < currentValue - 1 THEN straight
           ELSE LegacyRunFrom(suitCards, j + 1, currentValue, straight)

RECURSIVE LegacyRuns(_, _, _)
\* the loop over the starting positions i (1-based) of one suit
LegacyRuns(suitCards, i, longest) ==
  IF i > Len(suitCards) THEN longest
  ELSE LET straight == LegacyRunFrom(suitCards, i + 1, suitCards[i].rank,
                                     <<suitCards[i]>>)
       IN  LegacyRuns(suitCards, i + 1,
                      IF Len(straight) > Len(longest) THEN straight ELSE longest)

RECURSIVE LegacyAceLow(_, _, _, _)
\* the ace-low loop: from the last card back to the second, collecting
\* 2, 3, ... up to 6
LegacyAceLow(suitCards, i, expectedRank, aceLowStraight) ==
  IF i >= 2 /\ expectedRank <= 6 /\ suitCards[i].rank = expectedRank
  THEN LegacyAceLow(suitCards, i - 1, expectedRank + 1,
                    Append(aceLowStraight, suitCards[i]))
  ELSE aceLowStraight

RECURSIVE InsertAscending(_, _, _)
InsertAscending(c, s, k) ==
  IF k > Len(s) THEN Append(s, c)
  ELSE IF s[k].rank - c.rank > 0
       THEN SubSeq(s, 1, k - 1) \o <<c>> \o SubSeq(s, k, Len(s))
       ELSE InsertAscending(c, s, k + 1)

RECURSIVE SortAscending(_, _, _)
\* .sort((a, b) => a.rank - b.rank)
SortAscending(cards, k, sorted) ==
  IF k > Len(cards) THEN sorted
  ELSE SortAscending(cards, k + 1, InsertAscending(cards[k], sorted, 1))

\* the body of the for-in loop for one suit
LegacySuit(suitCards, longest) ==
  IF Len(suitCards) < 3 THEN longest
  ELSE LET afterRuns == LegacyRuns(suitCards, 1, longest)
       IN  IF suitCards[1].rank = 14
           THEN LET aceLowStraight ==
                      LegacyAceLow(suitCards, Len(suitCards), 2, <<suitCards[1]>>)
                IN  IF Len(aceLowStraight) >= 3 /\ Len(aceLowStraight) > Len(afterRuns)
                    THEN <<suitCards[1]>> \o
                         SortAscending(Tail(aceLowStraight), 1, <<>>)
                    ELSE afterRuns
           ELSE afterRuns

RECURSIVE LegacySuits(_, _, _)
LegacySuits(groups, k, longest) ==
  IF k > Len(groups) THEN longest
  ELSE LegacySuits(groups, k + 1, LegacySuit(groups[k], longest))

\* findLongestStraightFlush of simulation.ts: it returns the cards
findLongestStraightFlushCards(cards) ==
  LegacySuits(divideHandIntoSuits(cards), 1, <<>>)

getPlayWager(flushCards, highCardValue, ante, minRank) ==
  IF flushCards >= 6 THEN ante * 3
  ELSE IF flushCards >= 5 THEN ante * 2
  ELSE IF flushCards >= 3 /\ highCardValue >= minRank THEN ante * 1
  ELSE 0

\* the entries of threeCardStats under a key (at most one)
StatsAt(stats, key) == {i \in 1..Len(stats) : stats[i].highCards = key}

\* lines 271-281: count a 3-card flush at or above the minimum under its key
CountThreeCardFlush(stats, flush, minRank) ==
  IF Len(flush) = 3 /\ flush[1].rank >= minRank
  THEN LET key   == TwoHighestKey(flush)
           known == IF StatsAt(stats, key) # {} THEN stats
                    ELSE Append(stats, [highCards |-> key, wins |-> 0,
                                        losses |-> 0, total |-> 0])
           i     == CHOOSE x \in StatsAt(known, key) : TRUE
       IN  [known EXCEPT ![i].total = @ + 1]
  ELSE stats

\* the outcome of the base game of a hand: "fold", "win", "loss" or "push"
LegacyOutcome(wager, pFlush, dFlush) ==
  IF wager = 0 THEN "fold"
  ELSE IF ~dealerQualifies(dFlush) THEN "win"
  ELSE LET comparison == compareFlushes(pFlush, dFlush)
       IN  IF comparison > 0 THEN "win"
           ELSE IF comparison < 0 THEN "loss"
           ELSE "push"

\* lines 296-305, 313-322, 326-335: count the win or the loss of a 3-card
\* flush under its key
CountThreeCardOutcome(stats, flush, minRank, outcome) ==
  IF /\ outcome \in {"win", "loss"}
     /\ Len(flush) = 3
     /\ flush[1].rank >= minRank
     /\ StatsAt(stats, TwoHighestKey(flush)) # {}
  THEN LET i == CHOOSE x \in StatsAt(stats, TwoHighestKey(flush)) : TRUE
       IN  IF outcome = "win" THEN [stats EXCEPT ![i].wins = @ + 1]
           ELSE [stats EXCEPT ![i].losses = @ + 1]
  ELSE stats

\* lines 284-341: the base-game accumulator after the hand
LegacyBaseGame(b, wager, pFlush, dFlush) ==
  IF wager = 0
  THEN [b EXCEPT !.totalBet = @ + anteAmount, !.handsLost = @ + 1]
  ELSE LET totalWager == anteAmount + wager
           outcome    == LegacyOutcome(wager, pFlush, dFlush)
       IN  IF outcome = "win" /\ ~dealerQualifies(dFlush)
           THEN [b EXCEPT !.totalBet = @ + totalWager,
                          !.totalWon = @ + totalWager + anteAmount,
                          !.handsWon = @ + 1]
           ELSE IF outcome = "win"
           THEN [b EXCEPT !.totalBet = @ + totalWager,
                          !.totalWon = @ + totalWager + totalWager,
                          !.handsWon = @ + 1]
           ELSE IF outcome = "loss"
           THEN [b EXCEPT !.totalBet = @ + totalWager, !.handsLost = @ + 1]
           ELSE [b EXCEPT !.totalBet = @ + totalWager, !.totalWon = @ + totalWager]

\* lines 342-359: a side bet of `bet` with the looked-up multiplier
LegacySideBet(b, bet, multiplier) ==
  LET payout == IF multiplier > 0 THEN bet * multiplier ELSE 0
  IN  IF payout > 0
      THEN [b EXCEPT !.totalBet = @ + bet, !.totalWon = @ + bet + payout,
                     !.handsWon = @ + 1]
      ELSE [b EXCEPT !.totalBet = @ + bet, !.handsLost = @ + 1]

RECURSIVE SplitLoop(_, _, _, _, _)
\* String.prototype.split on a one-character separator
SplitLoop(chars, sep, k, piece, pieces) ==
  IF k > Len(chars) THEN Append(pieces, piece)
  ELSE IF chars[k] = sep
       THEN SplitLoop(chars, sep, k + 1, <<>>, Append(pieces, piece))
       ELSE SplitLoop(chars, sep, k + 1, Append(piece, chars[k]), pieces)

Split(chars, sep) == SplitLoop(chars, sep, 1, <<>>, <<>>)

RECURSIVE ParseDigits(_, _, _)
ParseDigits(chars, k, value) ==
  IF k > Len(chars) \/ \A d \in 1..10 : DigitChars[d] # chars[k] THEN value
  ELSE ParseDigits(chars, k + 1,
         10 * value + (CHOOSE d \in 0..9 : DigitChars[d + 1] = chars[k]))

\* parseInt of a string without sign or blanks: its leading digits, or NaN
parseInt(chars) ==
  IF chars = <<>> \/ \A d \in 1..10 : DigitChars[d] # chars[1] THEN "NaN"
  ELSE ParseDigits(chars, 1, 0)

\* the display string of a rank turned back into its number
DisplayValue(chars) ==
  IF chars = <<"A">> THEN 14
  ELSE IF chars = <<"K">> THEN 13
  ELSE IF chars = <<"Q">> THEN 12
  ELSE IF chars = <<"J">> THEN 11
  ELSE parseInt(chars)

\* the comparator of the key sort, lines 384-394
CompareKeys(a, b) ==
  LET aParts == Split(a, "-")
      bParts == Split(b, "-")
      aFirstValue == DisplayValue(aParts[1])
      bFirstValue == DisplayValue(bParts[1])
  IN  IF aFirstValue # bFirstValue THEN bFirstValue - aFirstValue
      ELSE DisplayValue(bParts[2]) - DisplayValue(aParts[2])

RECURSIVE InsertKey(_, _, _)
InsertKey(e, s, k) ==
  IF k > Len(s) THEN Append(s, e)
  ELSE IF CompareKeys(s[k].highCards, e.highCards) > 0
       THEN SubSeq(s, 1, k - 1) \o <<e>> \o SubSeq(s, k, Len(s))
       ELSE InsertKey(e, s, k + 1)

RECURSIVE SortKeys(_, _, _)
SortKeys(stats, k, sorted) ==
  IF k > Len(stats) THEN sorted
  ELSE SortKeys(stats, k + 1, InsertKey(stats[k], sorted, 1))

\* lines 383-404
ThreeCardFlushResults(stats) ==
  LET sorted == SortKeys(stats, 1, <<>>)
  IN  [k \in 1..Len(sorted) |->
         [highCards  |-> sorted[k].highCards,
          totalHands |-> sorted[k].total,
          wins       |-> sorted[k].wins,
          losses     |-> sorted[k].losses,
          winRate    |-> IF sorted[k].total > 0
                         THEN Percent(sorted[k].wins, sorted[k].wins + sorted[k].losses)
                         ELSE Percent(0, 1)]]

\* the one call of simulateHands
LegacyCalls == {"main"}

LegacyInit ==
  /\ numHands \in 0..MaxHands
  /\ payoutConfig \in PayoutConfigs
  /\ minThreeCardFlushRank \in Thresholds
  /\ randomSeed = 0
  /\ CallsStart(LegacyCalls, [c \in LegacyCalls |-> randomSeed])
  /\ NoApplication
  /\ NoPool

\* one iteration of the hand loop of simulateHands (called without
\* setProgress)
simulateHandsIteration(c) ==
  /\ pc[c] = "loop"
  /\ hand[c] < numHands
  /\ \E shuffledDeck \in shuffleDeck(deck[c]) :
     \E pCards \in {sortHandBySuitThenRank(SubSeq(shuffledDeck, 1, 7))} :
     \E dCards \in {sortHandBySuitThenRank(SubSeq(shuffledDeck, 8, 14))} :
     \E pFlush \in {findBestFlush(pCards)} :
     \E dFlush \in {findBestFlush(dCards)} :
     \E sFlush \in {findLongestStraightFlushCards(pCards)} :
     \E wager \in {getPlayWager(Len(pFlush),
                                IF Len(pFlush) > 0 THEN pFlush[1].rank ELSE 0,
                                anteAmount, minThreeCardFlushRank)} :
         /\ playerHand' = [playerHand EXCEPT ![c] = pCards]
         /\ dealerHand' = [dealerHand EXCEPT ![c] = dCards]
         /\ playerFlush' = [playerFlush EXCEPT ![c] = pFlush]
         /\ dealerFlush' = [dealerFlush EXCEPT ![c] = dFlush]
         /\ playerStraightFlush' = [playerStraightFlush EXCEPT ![c] = sFlush]
         /\ playWager' = [playWager EXCEPT ![c] = wager]
         /\ handsBelowMinimum' =
              [handsBelowMinimum EXCEPT ![c] = IF wager = 0 THEN @ + 1 ELSE @]
         /\ handsAboveMinimum' =
              [handsAboveMinimum EXCEPT ![c] = IF wager = 0 THEN @ ELSE @ + 1]
         /\ threeCardStats' = [threeCardStats EXCEPT ![c] =
              CountThreeCardOutcome(
                CountThreeCardFlush(@, pFlush, minThreeCardFlushRank),
                pFlush, minThreeCardFlushRank,
                LegacyOutcome(wager, pFlush, dFlush))]
         /\ betTotals' = [betTotals EXCEPT
              ![c][BaseGame] = LegacyBaseGame(@, wager, pFlush, dFlush),
              ![c][FlushRushBonus] =
                 LegacySideBet(@, flushRushBet,
                               calculateFlushRushPayout(Len(pFlush), payoutConfig)),
              ![c][SuperFlushRushBonus] =
                 LegacySideBet(@, superFlushRushBet,
                               calculateSuperFlushRushPayout(Len(sFlush), payoutConfig))]
  /\ hand' = [hand EXCEPT ![c] = @ + 1]
  /\ UNCHANGED <<inputs, rng, pc, deck, playerStraightLength, summary, application,
                 pool,
                 progressCalls, cancelRequested>>

\* the loop is over: build and return the summary
simulateHandsReturn(c) ==
  /\ pc[c] = "loop"
  /\ hand[c] >= numHands
  /\ summary' = [summary EXCEPT ![c] =
       [results |-> [k \in 1..Len(BetTypes) |->
                       SimulationResult(BetTypes[k], betTotals[c][BetTypes[k]])],
        threeCardFlushStats |-> ThreeCardFlushResults(threeCardStats[c]),
        handDistribution |->
          HandDistributionStats(numHands, handsAboveMinimum[c], handsBelowMinimum[c])]]
  /\ pc' = [pc EXCEPT ![c] = "done"]
  /\ UNCHANGED <<inputs, rng, hand, deck, betTotals, handsAboveMinimum,
                 handsBelowMinimum, locals, legacyLocals, application, pool,
                 progressCalls, cancelRequested>>

LegacyNext ==
  \E c \in LegacyCalls :
    \/ simulateHandsIteration(c)
    \/ simulateHandsReturn(c)

LegacySpec == LegacyInit /\ [][LegacyNext]_vars

(***************************************************************************)
(* stringToSeed, and the split of the hands of runSimulationInWorkers.  An *)
(* optional argument is a sequence of at most one value, <<>> standing for *)
(* undefined.                                                              *)
(***************************************************************************)
\* 2166136261 = 33052 * 2^16 + 40389
FnvOffsetHi == 33052
FnvOffsetLo == 40389

\* 16777619 = 256 * 2^16 + 403
FnvPrimeHi == 256
FnvPrimeLo == 403

LetterChars ==
  <<"a", "b", "c", "d", "e", "f", "g", "h", "i", "j", "k", "l", "m",
    "n", "o", "p", "q", "r", "s", "t", "u", "v", "w", "x", "y", "z">>

\* str.charCodeAt of a digit, a colon or a lower-case letter
CharCode(c) ==
  IF c = ":" THEN 58
  ELSE IF \E d \in 1..10 : DigitChars[d] = c
  THEN 47 + (CHOOSE d \in 1..10 : DigitChars[d] = c)
  ELSE 96 + (CHOOSE d \in 1..26 : LetterChars[d] = c)

RECURSIVE StringToSeedLoopMultiplyFirst(_, _, _)
\* faulty variant: the hash is multiplied before the character is mixed in
StringToSeedLoopMultiplyFirst(str, i, h) ==
  IF i > Len(str) THEN h
  ELSE StringToSeedLoopMultiplyFirst(str, i + 1,
         XorW(Imul(h, <<FnvPrimeHi, FnvPrimeLo>>), <<0, CharCode(str[i])>>))

RECURSIVE StringToSeedLoop(_, _, _)
\* the for loop of stringToSeed from index i (1-based)
StringToSeedLoop(str, i, h) ==
  IF i > Len(str) THEN h
  ELSE StringToSeedLoop(str, i + 1,
         Imul(XorW(h, <<0, CharCode(str[i])>>), <<FnvPrimeHi, FnvPrimeLo>>))

\* stringToSeed(str), as a word
stringToSeed(str) == StringToSeedLoop(str, 1, <<FnvOffsetHi, FnvOffsetLo>>)

\* faulty variant: every worker gets the seed of worker 0
deriveSeedOfFirst(seed, idx) ==
  IF seed = <<>> THEN <<>>
  ELSE <<stringToSeed(NumberToString(seed[1]) \o <<":">> \o NumberToString(0))>>

\* deriveSeed(seed, idx)
deriveSeed(seed, idx) ==
  IF seed = <<>> THEN <<>>
  ELSE <<stringToSeed(NumberToString(seed[1]) \o <<":">> \o NumberToString(idx))>>

Min(a, b) == IF a <= b THEN a ELSE b

\* the number of workers when navigator.hardwareConcurrency is missing or 0
DefaultConcurrency == 4

\* const hw = ...; const count = Math.max(1, Math.min(workerCount ?? hw, numHands))
WorkerCount(requested, concurrency, n) ==
  LET hw == IF concurrency # <<>> /\ concurrency[1] # 0 THEN concurrency[1]
            ELSE DefaultConcurrency
  IN  Max(1, Min(IF requested # <<>> THEN requested[1] ELSE hw, n))

\* faulty variant: the first worker takes the whole remainder
HandsPerWorkerRemainderFirst(n, count) ==
  [i \in 0..(count - 1) |-> (n \div count) + (IF i = 0 THEN n % count ELSE 0)]

\* const handsPerWorker = Array.from({ length: count }, (_, i) => base + (i < remainder ? 1 : 0))
HandsPerWorker(n, count) ==
  [i \in 0..(count - 1) |-> (n \div count) + (IF i < n % count THEN 1 ELSE 0)]

(***************************************************************************)
(* The helper functions applied to single arguments                        *)
(***************************************************************************)
\* the values offered for the minimum high card: none (0), or 5 to ace
RankThresholds == {0} \cup 5..14

RECURSIVE DescendingFlush(_, _)
\* the cards of the given ranks in one suit, highest rank first
DescendingFlush(ranks, suit) ==
  IF ranks = {} THEN <<>>
  ELSE LET top == CHOOSE x \in ranks : \A y \in ranks : y <= x
       IN  <<[rank |-> top, suit |-> suit]>> \o DescendingFlush(ranks \ {top}, suit)

\* every flush a hand of HandSize cards can hold, as findBestFlush returns
\* it: up to HandSize cards of one suit, sorted by descending rank
Flushes ==
  {DescendingFlush(S, "spade") :
     S \in {T \in SUBSET (2..14) : Cardinality(T) <= HandSize}}

\* the arguments of playerShouldFold and dealerQualifies
FlushArguments == [flush : Flushes, minRank : RankThresholds]

\* the longest of the short decks handed to shuffleDeckWithRng
MaxDeckLen == 4

\* numerators over 2^32 of the values a generator may return: 0, 1/4, 1/2,
\* 3/4 and the largest value below 1
ScriptedValues == {<<0, 0>>, <<16384, 0>>, <<32768, 0>>, <<49152, 0>>, <<65535, 65535>>}

\* generators that return a given list of values, one per swap of the
\* longest short deck
ScriptedRngs ==
  {[kind |-> "scripted", draws |-> d] : d \in [1..(MaxDeckLen - 1) -> ScriptedValues]}

\* the first cards of createDeck, and a deck that holds one card twice
ShortDecks ==
  {SubSeq(createDeck, 1, n) : n \in 0..MaxDeckLen}
    \cup {<<createDeck[1], createDeck[1], createDeck[2]>>}

\* the arguments of shuffleDeckWithRng: a short deck with any generator, or
\* the deck of createDeck with a generator of mulberry32
ShuffleArguments ==
  [deck : ShortDecks, rng : ScriptedRngs]
    \cup [deck : {createDeck}, rng : {mulberry32(s) : s \in Seeds}]

\* the ranks of the flushes handed to compareFlushes
ComparedRanks == {2, 3, 9, 10, 13, 14}

\* the arguments of compareFlushes: two flushes of different suits, each
\* sorted by descending rank
FlushPairs ==
  [firstFlush  : {DescendingFlush(S, "spade") : S \in SUBSET ComparedRanks},
   secondFlush : {DescendingFlush(S, "heart") : S \in SUBSET ComparedRanks}]

\* the cards of the hands handed to findBestFlush and
\* findLongestStraightFlush
HandRanks == {2, 3, 4, 5, 13, 14}
HandSuits == {"spade", "heart", "club"}
HandCards == [rank : HandRanks, suit : HandSuits]

RECURSIVE SortedHand(_)
\* the cards of S by suit (spade, heart, diamond, club), then by descending
\* rank
SortedHand(S) ==
  IF S = {} THEN <<>>
  ELSE LET first == CHOOSE c \in S : \A d \in S :
                      \/ getSuitOrder(c.suit) < getSuitOrder(d.suit)
                      \/ c.suit = d.suit /\ c.rank >= d.rank
       IN  <<first>> \o SortedHand(S \ {first})

\* the hands of up to HandSize cards, sorted by suit then descending rank
SortedHands ==
  [hand : {SortedHand(S) : S \in {T \in SUBSET HandCards : Cardinality(T) <= HandSize}}]

\* the arguments of the partition of runSimulationInWorkers: the number of
\* hands, the workerCount asked for and navigator.hardwareConcurrency
MaxPartitionHands == 12
PartitionArguments ==
  [numHands            : 1..MaxPartitionHands,
   workerCount         : {<<>>} \cup {<<k>> : k \in -1..(MaxPartitionHands + 1)},
   hardwareConcurrency : {<<>>, <<0>>, <<2>>, <<8>>}]

\* the arguments of a sequence of calls of one generator of mulberry32:
\* the seed (-1 is 4294967295 after seed >>> 0) and the number of calls
MaxCalls == 4
GeneratorArguments == [seed : {0, 1, 123456789, -1}, calls : 1..MaxCalls]

RECURSIVE CallsLoop(_, _, _)
\* Array.from({ length: n }, () => g()): the values returned, each with the
\* closure variable t left by the call
CallsLoop(g, n, done) ==
  IF n = 0 THEN done
  ELSE LET call == CallRng(g)
       IN  CallsLoop(call.rng, n - 1,
                     Append(done, [value |-> call.value, t |-> call.rng.t]))

\* the run lengths whose progress reports are examined: updateFrequency is 1
\* below 200 hands and 2 from 200 hands on
MaxProgressHands == 250
ProgressArguments == [hands : 1..MaxProgressHands]

RECURSIVE ProgressLoop(_, _, _)
\* the values performSimulation passes to onProgress in iterations from ..
\* to - 1 of a run of n hands, in the order of the iterations (the range is
\* halved so that long runs do not nest deeply)
ProgressLoop(from, to, n) ==
  IF from >= to THEN <<>>
  ELSE IF to = from + 1 THEN ProgressOf(from, n)
  ELSE LET mid == (from + to) \div 2
       IN  ProgressLoop(from, mid, n) \o ProgressLoop(mid, to, n)

\* the strings hashed: every string of up to MaxSeedStringLen characters of
\* SeedChars, and one longer word
MaxSeedStringLen == 3
SeedChars == {"a", "b", "o", ":", "0", "1"}
SeedStrings ==
  UNION {[1..n -> SeedChars] : n \in 0..MaxSeedStringLen}
    \cup {<<"f", "o", "o", "b", "a", "r">>}
StringArguments == [str : SeedStrings]

\* the hands handed to sortHandBySuitThenRank in any order: up to
\* MaxSortLen different cards of two ranks in the four suits, and the hand
\* of the test of the sorting helpers
MaxSortLen == 4
SortCards == [rank : {3, 12}, suit : {"spade", "heart", "diamond", "club"}]
UnsortedHands ==
  {h \in UNION {[1..n -> SortCards] : n \in 0..MaxSortLen} :
     \A i, j \in DOMAIN h : i # j => h[i] # h[j]}
    \cup {<<[rank |-> 2, suit |-> "heart"], [rank |-> 14, suit |-> "spade"],
             [rank |-> 10, suit |-> "spade"], [rank |-> 13, suit |-> "club"],
             [rank |-> 11, suit |-> "heart"], [rank |-> 9, suit |-> "spade"],
             [rank |-> 2, suit |-> "club"]>>}
SortArguments == [cards : UnsortedHands]

\* the hands on which the two engines' straight-flush searches are
\* compared: up to HandSize cards out of the spades 14, 7, 6, 5, 4, 3, 2 and
\* the hearts 14, 13, 3, sorted by suit then descending rank
StraightCards ==
  [rank : {2, 3, 4, 5, 6, 7, 14}, suit : {"spade"}]
    \cup [rank : {3, 13, 14}, suit : {"heart"}]
StraightHands ==
  [sortedHand : {SortedHand(S) :
                   S \in {T \in SUBSET StraightCards : Cardinality(T) <= HandSize}}]

FunctionInit ==
  /\ numHands = 0
  /\ payoutConfig = DefaultPayouts
  /\ minThreeCardFlushRank = 0
  /\ randomSeed = 0
  /\ CallsStart({}, <<>>)
  /\ NoPool
  /\ fn = "none"
  /\ \/ arg \in FlushArguments
     \/ arg \in ShuffleArguments
     \/ arg \in FlushPairs
     \/ arg \in SortedHands
     \/ arg \in PartitionArguments
     \/ arg \in GeneratorArguments
     \/ arg \in ProgressArguments
     \/ arg \in StringArguments
     \/ arg \in SortArguments
     \/ arg \in StraightHands
  /\ ret = <<>>

ApplyPlayerShouldFold ==
  /\ fn = "none"
  /\ "minRank" \in DOMAIN arg
  /\ fn' = "playerShouldFold"
  /\ ret' = playerShouldFold(arg.flush, arg.minRank)
  /\ UNCHANGED <<arg, inputs, rng, pc, hand, deck, betTotals, handsAboveMinimum,
                 handsBelowMinimum, locals, summary, legacyLocals, pool,
                 progressCalls, cancelRequested>>

ApplyDealerQualifies ==
  /\ fn = "none"
  /\ "minRank" \in DOMAIN arg
  /\ fn' = "dealerQualifies"
  /\ ret' = dealerQualifies(arg.flush)
  /\ UNCHANGED <<arg, inputs, rng, pc, hand, deck, betTotals, handsAboveMinimum,
                 handsBelowMinimum, locals, summary, legacyLocals, pool,
                 progressCalls, cancelRequested>>

ApplyShuffleDeckWithRng ==
  /\ fn = "none"
  /\ "rng" \in DOMAIN arg
  /\ fn' = "shuffleDeckWithRng"
  /\ ret' = shuffleDeckWithRng(arg.deck, arg.rng)
  /\ UNCHANGED <<arg, inputs, rng, pc, hand, deck, betTotals, handsAboveMinimum,
                 handsBelowMinimum, locals, summary, legacyLocals, pool,
                 progressCalls, cancelRequested>>

ApplyCompareFlushes ==
  /\ fn = "none"
  /\ "secondFlush" \in DOMAIN arg
  /\ fn' = "compareFlushes"
  /\ ret' = compareFlushes(arg.firstFlush, arg.secondFlush)
  /\ UNCHANGED <<arg, inputs, rng, pc, hand, deck, betTotals, handsAboveMinimum,
                 handsBelowMinimum, locals, summary, legacyLocals, pool,
                 progressCalls, cancelRequested>>

ApplyFindBestFlush ==
  /\ fn = "none"
  /\ "hand" \in DOMAIN arg
  /\ fn' = "findBestFlush"
  /\ ret' = findBestFlush(arg.hand)
  /\ UNCHANGED <<arg, inputs, rng, pc, hand, deck, betTotals, handsAboveMinimum,
                 handsBelowMinimum, locals, summary, legacyLocals, pool,
                 progressCalls, cancelRequested>>

ApplyFindLongestStraightFlush ==
  /\ fn = "none"
  /\ "hand" \in DOMAIN arg
  /\ fn' = "findLongestStraightFlush"
  /\ ret' = findLongestStraightFlush(arg.hand)
  /\ UNCHANGED <<arg, inputs, rng, pc, hand, deck, betTotals, handsAboveMinimum,
                 handsBelowMinimum, locals, summary, legacyLocals, pool,
                 progressCalls, cancelRequested>>

\* the split of runSimulationInWorkers: count, then handsPerWorker
ApplyHandsPerWorker ==
  /\ fn = "none"
  /\ "workerCount" \in DOMAIN arg
  /\ fn' = "handsPerWorker"
  /\ ret' = HandsPerWorker(arg.numHands,
                           WorkerCount(arg.workerCount, arg.hardwareConcurrency,
                                       arg.numHands))
  /\ UNCHANGED <<arg, inputs, rng, pc, hand, deck, betTotals, handsAboveMinimum,
                 handsBelowMinimum, locals, summary, legacyLocals, pool,
                 progressCalls, cancelRequested>>

ApplyMulberry32 ==
  /\ fn = "none"
  /\ "calls" \in DOMAIN arg
  /\ fn' = "mulberry32"
  /\ ret' = CallsLoop(mulberry32(arg.seed), arg.calls, <<>>)
  /\ UNCHANGED <<arg, inputs, rng, pc, hand, deck, betTotals, handsAboveMinimum,
                 handsBelowMinimum, locals, summary, legacyLocals, pool,
                 progressCalls, cancelRequested>>

\* the progress reports of one performSimulation(arg.hands, ...) call
ApplyProgressReports ==
  /\ fn = "none"
  /\ "hands" \in DOMAIN arg
  /\ fn' = "progressReports"
  /\ ret' = ProgressLoop(0, arg.hands, arg.hands)
  /\ UNCHANGED <<arg, inputs, rng, pc, hand, deck, betTotals, handsAboveMinimum,
                 handsBelowMinimum, locals, summary, legacyLocals, pool,
                 progressCalls, cancelRequested>>

ApplyStringToSeed ==
  /\ fn = "none"
  /\ "str" \in DOMAIN arg
  /\ fn' = "stringToSeed"
  /\ ret' = stringToSeed(arg.str)
  /\ UNCHANGED <<arg, inputs, rng, pc, hand, deck, betTotals, handsAboveMinimum,
                 handsBelowMinimum, locals, summary, legacyLocals, pool,
                 progressCalls, cancelRequested>>

\* sortHandBySuitThenRank(arg.cards), then divideHandIntoSuits of what it
\* returned
ApplySortHand ==
  /\ fn = "none"
  /\ "cards" \in DOMAIN arg
  /\ fn' = "sortHandBySuitThenRank"
  /\ ret' = [groups |-> divideHandIntoSuits(sortHandBySuitThenRank(arg.cards))]
             @@ SortOfCopy(arg.cards)
  /\ UNCHANGED <<arg, inputs, rng, pc, hand, deck, betTotals, handsAboveMinimum,
                 handsBelowMinimum, locals, summary, legacyLocals, pool,
                 progressCalls, cancelRequested>>

\* the Super Flush Rush multiplier of each engine for the hand: simulation.ts
\* looks up the length of the card list its findLongestStraightFlush
\* returns, simulation-core the number its findLongestStraightFlush returns
ApplyBothStraightFlushes ==
  /\ fn = "none"
  /\ "sortedHand" \in DOMAIN arg
  /\ fn' = "superFlushRush"
  /\ \E cards \in {findLongestStraightFlushCards(arg.sortedHand)} :
     \E length \in {findLongestStraightFlush(arg.sortedHand)} :
       ret' = [legacyLength |-> Len(cards),
               legacyPayout |-> calculateSuperFlushRushPayout(Len(cards), DefaultPayouts),
               coreLength   |-> length,
               corePayout   |-> calculateSuperFlushRushPayout(length, DefaultPayouts)]
  /\ UNCHANGED <<arg, inputs, rng, pc, hand, deck, betTotals, handsAboveMinimum,
                 handsBelowMinimum, locals, summary, legacyLocals, pool,
                 progressCalls, cancelRequested>>

FunctionNext ==
  \/ ApplyPlayerShouldFold
  \/ ApplyDealerQualifies
  \/ ApplyShuffleDeckWithRng
  \/ ApplyCompareFlushes
  \/ ApplyFindBestFlush
  \/ ApplyFindLongestStraightFlush
  \/ ApplyHandsPerWorker
  \/ ApplyMulberry32
  \/ ApplyProgressReports
  \/ ApplyStringToSeed
  \/ ApplySortHand
  \/ ApplyBothStraightFlushes

FunctionSpec == FunctionInit /\ [][FunctionNext]_vars

(***************************************************************************)
(* runSimulationInWorkers and simulation.worker.ts.  Workers are numbered  *)
(* from 0 as in the code; the locals of the performSimulation call of      *)
(* worker i are rng[i], hand[i], betTotals[i], ...                         *)
(***************************************************************************)
\* the generators the worker may build for the seed of its task: mulberry32
\* of a number seed taken as an unsigned 32-bit word, or a generator of
\* crypto.getRandomValues (two of its streams stand for all)
WorkerRngs(seed) ==
  IF seed # <<>> THEN {[kind |-> "mulberry32", t |-> ToUint32(seed[1])]}
  ELSE {mulberry32(13), mulberry32(1126)}

\* the number 0 as a percentage
ZeroPercent == Percent(0, 1)

RECURSIVE SumTo(_, _)
\* f[0] + ... + f[k]
SumTo(f, k) == IF k < 0 THEN 0 ELSE f[k] + SumTo(f, k - 1)

RECURSIVE ProductTo(_, _)
\* f[0] * ... * f[k]
ProductTo(f, k) == IF k < 0 THEN 1 ELSE f[k] * ProductTo(f, k - 1)

\* faulty variant: the plain mean of the workers' percentages, whatever the
\* hands of each
GlobalProgressUnweighted(progress, hands, totalHands) ==
  LET last  == Cardinality(DOMAIN progress) - 1
      d     == ProductTo([i \in DOMAIN progress |-> progress[i].den], last)
      numer == SumTo([i \in DOMAIN progress |->
                        progress[i].num * (d \div progress[i].den)], last)
  IN  Percent(numer, 100 * d * (last + 1))

\* the global progress of the progress branch of w.onmessage, computed
\* exactly: weighted = sum of (prog / 100) * handsPerWorker[idx2], global =
\* (weighted / totalHands) * 100
GlobalProgress(progress, hands, totalHands) ==
  LET last  == Cardinality(DOMAIN progress) - 1
      d     == ProductTo([i \in DOMAIN progress |-> progress[i].den], last)
      numer == SumTo([i \in DOMAIN progress |->
                        progress[i].num * hands[i] * (d \div progress[i].den)], last)
  IN  Percent(numer, 100 * d * totalHands)

\* faulty variant: the totals of a part replace those of the parts before it
AddResultOverwrite(existing, r) ==
  [betType   |-> r.betType,
   totalBet  |-> r.totalBet,
   totalWon  |-> r.totalWon,
   handsWon  |-> r.handsWon,
   handsLost |-> r.handsLost]

\* existing.totalBet += r.totalBet, ... : one entry of totalsMap
AddResult(existing, r) ==
  [betType   |-> r.betType,
   totalBet  |-> existing.totalBet + r.totalBet,
   totalWon  |-> existing.totalWon + r.totalWon,
   handsWon  |-> existing.handsWon + r.handsWon,
   handsLost |-> existing.handsLost + r.handsLost]

RECURSIVE MergeResults(_, _, _)
\* for (const r of part.results): totalsMap as the list of its entries in
\* insertion order, results from index k
MergeResults(totalsMap, results, k) ==
  IF k > Len(results) THEN totalsMap
  ELSE LET r  == results[k]
           at == {j \in 1..Len(totalsMap) : totalsMap[j].betType = r.betType}
       IN  IF at = {}
           THEN MergeResults(Append(totalsMap, AddResult(BetResults, r)), results, k + 1)
           ELSE LET j == CHOOSE j \in at : TRUE
                IN  MergeResults([totalsMap EXCEPT ![j] = AddResult(@, r)],
                                 results, k + 1)

RECURSIVE MergeParts(_, _, _)
\* for (const part of parts), from part i
MergeParts(parts, i, acc) ==
  IF i \notin DOMAIN parts THEN acc
  ELSE MergeParts(parts, i + 1,
         [totalsMap   |-> MergeResults(acc.totalsMap, parts[i].results, 1),
          totalHands  |-> acc.totalHands + parts[i].handDistribution.totalHands,
          totalAbove  |-> acc.totalAbove + parts[i].handDistribution.aboveMinimum,
          totalBelow  |-> acc.totalBelow + parts[i].handDistribution.belowMinimum])

\* one element of combinedResults
CombinedResult(data) ==
  [betType        |-> data.betType,
   totalBet       |-> data.totalBet,
   totalWon       |-> data.totalWon,
   expectedReturn |-> IF data.totalBet > 0
                      THEN Percent(data.totalWon - data.totalBet, data.totalBet)
                      ELSE ZeroPercent,
   handsWon       |-> data.handsWon,
   handsLost      |-> data.handsLost,
   winRate        |-> IF data.handsWon + data.handsLost > 0
                      THEN Percent(data.handsWon, data.handsWon + data.handsLost)
                      ELSE ZeroPercent]

\* the summary the then-callback of Promise.all resolves with
Aggregate(parts) ==
  LET acc == MergeParts(parts, 0, [totalsMap |-> <<>>, totalHands |-> 0,
                                   totalAbove |-> 0, totalBelow |-> 0])
  IN  [results |-> [k \in 1..Len(acc.totalsMap) |-> CombinedResult(acc.totalsMap[k])],
       handDistribution |->
         [totalHands             |-> acc.totalHands,
          aboveMinimum           |-> acc.totalAbove,
          belowMinimum           |-> acc.totalBelow,
          aboveMinimumPercentage |-> IF acc.totalHands > 0
                                     THEN Percent(acc.totalAbove, acc.totalHands)
                                     ELSE ZeroPercent,
          belowMinimumPercentage |-> IF acc.totalHands > 0
                                     THEN Percent(acc.totalBelow, acc.totalHands)
                                     ELSE ZeroPercent]]

\* the inputs of runSimulationInWorkers
PoolHands == -1..3
PoolSeeds == {<<>>, <<1>>}
WorkerCounts == {<<>>, <<0>>, <<2>>, <<3>>}
Concurrencies == {<<>>, <<2>>}

PoolInit ==
  /\ numHands \in PoolHands
  /\ payoutConfig = DefaultPayouts
  /\ minThreeCardFlushRank = 9
  /\ randomSeed \in PoolSeeds
  /\ CallsStart({}, <<>>)
  /\ NoApplication
  /\ workerCount \in WorkerCounts
  /\ hardwareConcurrency \in Concurrencies
  /\ handsPerWorker = <<>>
  /\ workers = <<>>
  /\ channel = <<>>
  /\ perWorkerProgress = <<>>
  /\ reported = <<>>
  /\ workerPromises = <<>>
  /\ settled = FALSE
  /\ promise = Pending
  /\ sent = <<>>

\* the call of runSimulationInWorkers: the executor of the returned promise
\* up to the registration of the callbacks of Promise.all.  Every worker is
\* spawned and its task message is posted.
runSimulationInWorkers ==
  /\ DOMAIN workers = {}
  /\ \E count \in {WorkerCount(workerCount, hardwareConcurrency, numHands)} :
     LET W == 0..(count - 1)
     IN  /\ handsPerWorker' = HandsPerWorker(numHands, count)
         /\ workers' = [i \in W |-> "running"]
         /\ perWorkerProgress' = [i \in W |-> ZeroPercent]
         /\ workerPromises' = [i \in W |-> Pending]
         /\ channel' = [i \in W |-> <<>>]
         /\ pc' = [i \in W |-> "posted"]
         /\ rng' = [i \in W |-> [kind |-> "none"]]
         /\ hand' = [i \in W |-> 0]
         /\ deck' = [i \in W |-> createDeck]
         /\ betTotals' = [i \in W |->
              [k \in {BaseGame, FlushRushBonus, SuperFlushRushBonus} |-> BetResults]]
         /\ handsAboveMinimum' = [i \in W |-> 0]
         /\ handsBelowMinimum' = [i \in W |-> 0]
         /\ playerHand' = [i \in W |-> <<>>]
         /\ dealerHand' = [i \in W |-> <<>>]
         /\ playerFlush' = [i \in W |-> <<>>]
         /\ dealerFlush' = [i \in W |-> <<>>]
         /\ playerStraightLength' = [i \in W |-> 0]
         /\ summary' = [i \in W |-> NoSummary]
         /\ progressCalls' = [i \in W |-> <<>>]
         /\ sent' = [i \in W |-> <<>>]
  /\ UNCHANGED <<inputs, legacyLocals, application, workerCount,
                 hardwareConcurrency, reported, settled, promise, cancelRequested>>

\* self.onmessage of worker i up to the call of performSimulation: the
\* generator is built from the seed of the task
WorkerOnMessage(i) ==
  /\ workers[i] = "running"
  /\ pc[i] = "posted"
  /\ \E g \in WorkerRngs(deriveSeed(randomSeed, i)) :
       rng' = [rng EXCEPT ![i] = g]
  /\ pc' = [pc EXCEPT ![i] = "loop"]
  /\ UNCHANGED <<inputs, hand, deck, betTotals, handsAboveMinimum,
                 handsBelowMinimum, locals, summary, legacyLocals, application,
                 pool,
                 progressCalls, cancelRequested>>

\* one iteration of the hand loop of worker i, with the progress report of
\* progressCb and the yield that follows it
WorkerHand(i) ==
  /\ workers[i] = "running"
  /\ pc[i] = "loop"
  /\ HandLoopBody(i, handsPerWorker[i])
  /\ \E calls \in {ProgressOf(hand[i], handsPerWorker[i])} :
       /\ progressCalls' = [progressCalls EXCEPT ![i] = @ \o calls]
       /\ \E messages \in {[k \in 1..Len(calls) |->
                               [type |-> "progress", progress |-> calls[k]]]} :
            /\ channel' = [channel EXCEPT ![i] = @ \o messages]
            /\ sent' = [sent EXCEPT ![i] = @ \o messages]
  /\ UNCHANGED <<inputs, pc, summary, legacyLocals, application, workerCount,
                 hardwareConcurrency, handsPerWorker, workers, perWorkerProgress,
                 reported, workerPromises, settled, promise, cancelRequested>>

\* faulty variant: after done the worker reports the end of the run as a
\* last progress message
WorkerDoneThenProgress(i) ==
  /\ workers[i] = "running"
  /\ pc[i] = "loop"
  /\ hand[i] >= handsPerWorker[i]
  /\ \E s \in {SimulationSummary(betTotals[i], handsPerWorker[i],
                                 handsAboveMinimum[i], handsBelowMinimum[i])} :
     \E messages \in {<<[type |-> "done", results |-> s.results,
                          handDistribution |-> s.handDistribution],
                         [type |-> "progress", progress |-> Percent(1, 1)]>>} :
       /\ summary' = [summary EXCEPT ![i] = s]
       /\ channel' = [channel EXCEPT ![i] = @ \o messages]
       /\ sent' = [sent EXCEPT ![i] = @ \o messages]
  /\ pc' = [pc EXCEPT ![i] = "done"]
  /\ UNCHANGED <<inputs, rng, hand, deck, betTotals, handsAboveMinimum,
                 handsBelowMinimum, locals, legacyLocals, application,
                 workerCount, hardwareConcurrency, handsPerWorker, workers,
                 perWorkerProgress, reported, workerPromises, settled, promise,
                 progressCalls, cancelRequested>>

\* performSimulation of worker i returns and the worker posts done
WorkerDone(i) ==
  /\ workers[i] = "running"
  /\ pc[i] = "loop"
  /\ hand[i] >= handsPerWorker[i]
  /\ \E s \in {SimulationSummary(betTotals[i], handsPerWorker[i],
                                 handsAboveMinimum[i], handsBelowMinimum[i])} :
     \E message \in {[type |-> "done", results |-> s.results,
                       handDistribution |-> s.handDistribution]} :
       /\ summary' = [summary EXCEPT ![i] = s]
       /\ channel' = [channel EXCEPT ![i] = Append(@, message)]
       /\ sent' = [sent EXCEPT ![i] = Append(@, message)]
  /\ pc' = [pc EXCEPT ![i] = "done"]
  /\ UNCHANGED <<inputs, rng, hand, deck, betTotals, handsAboveMinimum,
                 handsBelowMinimum, locals, legacyLocals, application,
                 workerCount, hardwareConcurrency, handsPerWorker, workers,
                 perWorkerProgress, reported, workerPromises, settled, promise,
                 progressCalls, cancelRequested>>

\* worker i stops on an error the worker script does not catch; the error
\* event goes to w.onerror
WorkerCrash(i) ==
  /\ workers[i] = "running"
  /\ pc[i] \in {"posted", "loop"}
  /\ pc' = [pc EXCEPT ![i] = "failed"]
  /\ channel' = [channel EXCEPT ![i] = Append(@, [type |-> "onerror"])]
  /\ UNCHANGED <<sent, inputs, rng, hand, deck, betTotals, handsAboveMinimum,
                 handsBelowMinimum, locals, summary, legacyLocals, application,
                 workerCount, hardwareConcurrency, handsPerWorker, workers,
                 perWorkerProgress, reported, workerPromises, settled, promise,
                 progressCalls, cancelRequested>>

\* performSimulation of worker i throws in its hand loop (a payoutConfig
\* without flushRush makes calculateFlushRushPayout throw a TypeError): the
\* catch of self.onmessage posts { type: 'error', message: String(err) }
WorkerThrows(i) ==
  /\ workers[i] = "running"
  /\ pc[i] = "loop"
  /\ hand[i] < handsPerWorker[i]
  /\ pc' = [pc EXCEPT ![i] = "failed"]
  /\ \E message \in {[type |-> "error", message |-> "TypeError"]} :
       /\ channel' = [channel EXCEPT ![i] = Append(@, message)]
       /\ sent' = [sent EXCEPT ![i] = Append(@, message)]
  /\ UNCHANGED <<inputs, rng, hand, deck, betTotals, handsAboveMinimum,
                 handsBelowMinimum, locals, summary, legacyLocals, application,
                 workerCount, hardwareConcurrency, handsPerWorker, workers,
                 perWorkerProgress, reported, workerPromises, settled, promise,
                 progressCalls, cancelRequested>>

\* faulty variant: the catch callback rejects without terminateAll()
SettleWorkerPromiseWithoutTerminate(i, p) ==
  \E promises \in {IF workerPromises[i].state = "pending"
                   THEN [workerPromises EXCEPT ![i] = p]
                   ELSE workerPromises} :
    /\ workerPromises' = promises
    /\ IF ~settled /\ \E j \in DOMAIN promises : promises[j].state = "rejected"
       THEN /\ settled' = TRUE
            /\ workers' = workers
            /\ promise' = [state |-> "rejected", reason |-> p.reason]
       ELSE IF ~settled /\ \A j \in DOMAIN promises : promises[j].state = "fulfilled"
       THEN /\ settled' = TRUE
            /\ workers' = [j \in DOMAIN workers |-> "terminated"]
            /\ promise' = [state |-> "resolved",
                           value |-> Aggregate([j \in DOMAIN promises |->
                                                  promises[j].value])]
       ELSE UNCHANGED <<settled, workers, promise>>

\* faulty variant: the then callback resolves without terminateAll()
SettleWorkerPromiseResolveWithoutTerminate(i, p) ==
  \E promises \in {IF workerPromises[i].state = "pending"
                   THEN [workerPromises EXCEPT ![i] = p]
                   ELSE workerPromises} :
    /\ workerPromises' = promises
    /\ IF ~settled /\ \E j \in DOMAIN promises : promises[j].state = "rejected"
       THEN /\ settled' = TRUE
            /\ workers' = [j \in DOMAIN workers |-> "terminated"]
            /\ promise' = [state |-> "rejected", reason |-> p.reason]
       ELSE IF ~settled /\ \A j \in DOMAIN promises : promises[j].state = "fulfilled"
       THEN /\ settled' = TRUE
            /\ workers' = workers
            /\ promise' = [state |-> "resolved",
                           value |-> Aggregate([j \in DOMAIN promises |->
                                                  promises[j].value])]
       ELSE UNCHANGED <<settled, workers, promise>>

\* res or rej of the promise of worker i with the settled state p, followed
\* by the callbacks of Promise.all that this makes runnable: the catch
\* callback on a rejection, the then callback once every part is there.
\* Either one sets settled, terminates every worker and settles the promise
\* returned to the caller.
SettleWorkerPromise(i, p) ==
  \E promises \in {IF workerPromises[i].state = "pending"
                   THEN [workerPromises EXCEPT ![i] = p]
                   ELSE workerPromises} :
    /\ workerPromises' = promises
    /\ IF ~settled /\ \E j \in DOMAIN promises : promises[j].state = "rejected"
       THEN /\ settled' = TRUE
            /\ workers' = [j \in DOMAIN workers |-> "terminated"]
            /\ promise' = [state |-> "rejected", reason |-> p.reason]
       ELSE IF ~settled /\ \A j \in DOMAIN promises : promises[j].state = "fulfilled"
       THEN /\ settled' = TRUE
            /\ workers' = [j \in DOMAIN workers |-> "terminated"]
            /\ promise' = [state |-> "resolved",
                           value |-> Aggregate([j \in DOMAIN promises |->
                                                  promises[j].value])]
       ELSE UNCHANGED <<settled, workers, promise>>

\* w.onmessage and w.onerror of worker i on the main thread, for the oldest
\* event the worker has sent
OnWorkerEvent(i) ==
  /\ workers[i] = "running"
  /\ channel[i] # <<>>
  /\ channel' = [channel EXCEPT ![i] = Tail(@)]
  /\ \E data \in {Head(channel[i])} :
       IF data.type = "progress"
       THEN \E progress \in {[perWorkerProgress EXCEPT ![i] = data.progress]} :
              /\ perWorkerProgress' = progress
              /\ reported' = Append(reported,
                                    GlobalProgress(progress, handsPerWorker, numHands))
              /\ UNCHANGED <<workerPromises, settled, workers, promise>>
       ELSE /\ IF data.type = "done"
               THEN SettleWorkerPromise(i, [state |-> "fulfilled",
                      value |-> [results |-> data.results,
                                 handDistribution |-> data.handDistribution]])
               ELSE IF data.type = "error"
               THEN SettleWorkerPromise(i, [state |-> "rejected",
                                           reason |-> data.message])
               ELSE SettleWorkerPromise(i, [state |-> "rejected",
                                           reason |-> "ErrorEvent"])
            /\ UNCHANGED <<perWorkerProgress, reported>>
  /\ UNCHANGED <<inputs, rng, pc, hand, deck, betTotals, handsAboveMinimum,
                 handsBelowMinimum, locals, summary, legacyLocals, application,
                 workerCount, hardwareConcurrency, handsPerWorker, sent,
                 progressCalls, cancelRequested>>

PoolNext ==
  \/ runSimulationInWorkers
  \/ \E i \in DOMAIN workers :
       \/ WorkerOnMessage(i)
       \/ WorkerHand(i)
       \/ WorkerDone(i)
       \/ WorkerCrash(i)
       \/ WorkerThrows(i)
       \/ OnWorkerEvent(i)

PoolSpec == PoolInit /\ [][PoolNext]_vars

\* seeded runs of at least two hands on an explicit number of workers, in
\* which the event loop of the main thread eventually runs the handler of
\* every event a worker has queued
PoolFairInit ==
  /\ PoolInit
  /\ randomSeed # <<>>
  /\ workerCount # <<>>
  /\ numHands >= 2

\* the handler of worker i has an event to run
EventQueued(i) ==
  i \in DOMAIN workers /\ workers[i] = "running" /\ channel[i] # <<>>

\* weak fairness of OnWorkerEvent(i), whose enabling condition is
\* EventQueued(i): the handler is not left waiting for ever
PoolFairSpec ==
  /\ PoolFairInit
  /\ [][PoolNext]_vars
  /\ \A i \in 0..2 :
       []<>(~EventQueued(i)) \/ []<><<EventQueued(i) /\ OnWorkerEvent(i)>>_vars

\* worker i has its task and is not stopped: it can play a hand / it can
\* return
CanPlayHand(i) ==
  /\ i \in DOMAIN workers /\ workers[i] = "running" /\ pc[i] = "loop"
  /\ hand[i] < handsPerWorker[i]
CanReturn(i) ==
  /\ i \in DOMAIN workers /\ workers[i] = "running" /\ pc[i] = "loop"
  /\ hand[i] >= handsPerWorker[i]

\* the same runs when the thread of every worker keeps running: the timer
\* of the yield after a report fires and the loop goes on (weak fairness of
\* WorkerHand and WorkerDone, written with their enabling conditions)
WorkerFairSpec ==
  /\ PoolFairInit
  /\ [][PoolNext]_vars
  /\ \A i \in 0..2 :
       /\ []<>(~CanPlayHand(i)) \/ []<><<CanPlayHand(i) /\ WorkerHand(i)>>_vars
       /\ []<>(~CanReturn(i)) \/ []<><<CanReturn(i) /\ WorkerDone(i)>>_vars

(***************************************************************************)
(* simulateHands on the main thread and runSimulationInWorker with its one *)
(* worker, called with the same arguments.  The locals of the              *)
(* performSimulation call of simulateHands are rng[MainThread], ..., those *)
(* of the worker rng[SingleWorker], ...                                    *)
(***************************************************************************)
MainThread == "main"
SingleWorker == "w"
SingleRuns == {MainThread, SingleWorker}

\* randomSeed?: number | string
NumberSeed(n) == [type |-> "number", number |-> n]
StringSeed(str) == [type |-> "string", text |-> str]
UndefinedSeed == [type |-> "undefined"]

\* the longest run of the two entry points that is explored
MaxSingleHands == 2
SingleHands == 0..MaxSingleHands
SingleSeeds ==
  {UndefinedSeed, NumberSeed(4), NumberSeed(1126), NumberSeed(-1),
   StringSeed(<<"4">>), StringSeed(<<"a", "b">>)}

\* the generators simulateHands may build: mulberry32 of randomSeed >>> 0
\* for a number, of stringToSeed(String(randomSeed)) for a string, and
\* without a seed a generator of crypto.getRandomValues (two of its streams
\* stand for all)
SeedRngs(seed) ==
  IF seed.type = "number"
  THEN {[kind |-> "mulberry32", t |-> ToUint32(ToUint32(ToWord(seed.number)))]}
  ELSE IF seed.type = "string"
  THEN {[kind |-> "mulberry32", t |-> ToUint32(stringToSeed(seed.text))]}
  ELSE {mulberry32(13), mulberry32(1126)}

\* the generators self.onmessage of the worker may build for the randomSeed
\* of its task
TaskRngs(seed) ==
  IF seed.type = "number"
  THEN {[kind |-> "mulberry32", t |-> ToUint32(ToUint32(ToWord(seed.number)))]}
  ELSE IF seed.type = "string"
  THEN {[kind |-> "mulberry32", t |-> ToUint32(stringToSeed(seed.text))]}
  ELSE {mulberry32(13), mulberry32(1126)}

\* faulty variant: the task is posted without the seed
WorkerTaskWithoutSeed ==
  [numHands |-> numHands, payoutConfig |-> payoutConfig,
   minThreeCardFlushRank |-> minThreeCardFlushRank, randomSeed |-> UndefinedSeed]

\* worker.postMessage({ numHands, payoutConfig, minThreeCardFlushRank,
\* randomSeed }): the structured clone of a number or a string is the same
\* number or string
WorkerTask ==
  [numHands |-> numHands, payoutConfig |-> payoutConfig,
   minThreeCardFlushRank |-> minThreeCardFlushRank, randomSeed |-> randomSeed]

\* data[name] of a message: undefined for a property the message lacks
Property(data, name) ==
  IF name \in DOMAIN data THEN data[name] ELSE "undefined"

\* neither function has been called; the locals hold what performSimulation
\* gives them at its top
SingleInit ==
  /\ numHands \in SingleHands
  /\ payoutConfig = DefaultPayouts
  /\ minThreeCardFlushRank = 9
  /\ randomSeed \in SingleSeeds
  /\ rng = [r \in SingleRuns |-> [kind |-> "none"]]
  /\ pc = [r \in SingleRuns |-> "idle"]
  /\ hand = [r \in SingleRuns |-> 0]
  /\ deck = [r \in SingleRuns |-> createDeck]
  /\ betTotals = [r \in SingleRuns |->
       [k \in {BaseGame, FlushRushBonus, SuperFlushRushBonus} |-> BetResults]]
  /\ handsAboveMinimum = [r \in SingleRuns |-> 0]
  /\ handsBelowMinimum = [r \in SingleRuns |-> 0]
  /\ playerHand = [r \in SingleRuns |-> <<>>]
  /\ dealerHand = [r \in SingleRuns |-> <<>>]
  /\ playerFlush = [r \in SingleRuns |-> <<>>]
  /\ dealerFlush = [r \in SingleRuns |-> <<>>]
  /\ playerStraightLength = [r \in SingleRuns |-> 0]
  /\ summary = [r \in SingleRuns |-> NoSummary]
  /\ threeCardStats = [r \in SingleRuns |-> <<>>]
  /\ playWager = [r \in SingleRuns |-> 0]
  /\ playerStraightFlush = [r \in SingleRuns |-> <<>>]
  /\ progressCalls = [r \in SingleRuns |-> <<>>]
  /\ cancelRequested = FALSE
  /\ NoApplication
  /\ NoPool

\* simulateHands up to its call of performSimulation: the generator is built
\* from randomSeed
simulateHands ==
  /\ pc[MainThread] = "idle"
  /\ \E g \in SeedRngs(randomSeed) :
       rng' = [rng EXCEPT ![MainThread] = g]
  /\ pc' = [pc EXCEPT ![MainThread] = "loop"]
  /\ UNCHANGED <<inputs, hand, deck, betTotals, handsAboveMinimum,
                 handsBelowMinimum, locals, summary, legacyLocals, application,
                 pool, progressCalls, cancelRequested>>

\* the executor of the promise of runSimulationInWorker: the worker is
\* spawned, the handlers are set and the task is posted
runSimulationInWorker ==
  /\ DOMAIN workers = {}
  /\ workers' = [i \in {SingleWorker} |-> "running"]
  /\ handsPerWorker' = [i \in {SingleWorker} |-> WorkerTask.numHands]
  /\ channel' = [i \in {SingleWorker} |-> <<>>]
  /\ sent' = [i \in {SingleWorker} |-> <<>>]
  /\ pc' = [pc EXCEPT ![SingleWorker] = "posted"]
  /\ UNCHANGED <<inputs, rng, hand, deck, betTotals, handsAboveMinimum,
                 handsBelowMinimum, locals, summary, legacyLocals, application,
                 workerCount, hardwareConcurrency, perWorkerProgress, reported,
                 workerPromises, settled, promise, progressCalls,
                 cancelRequested>>

\* self.onmessage of the one worker up to the call of performSimulation
SingleWorkerOnMessage ==
  /\ SingleWorker \in DOMAIN workers
  /\ workers[SingleWorker] = "running"
  /\ pc[SingleWorker] = "posted"
  /\ \E g \in TaskRngs(WorkerTask.randomSeed) :
       rng' = [rng EXCEPT ![SingleWorker] = g]
  /\ pc' = [pc EXCEPT ![SingleWorker] = "loop"]
  /\ UNCHANGED <<inputs, hand, deck, betTotals, handsAboveMinimum,
                 handsBelowMinimum, locals, summary, legacyLocals, application,
                 pool, progressCalls, cancelRequested>>

\* worker.onmessage and worker.onerror of runSimulationInWorker, for the
\* oldest event of the worker: a progress message is passed to onProgress;
\* done terminates the worker and resolves; an error message terminates the
\* worker and rejects with data.error; onerror terminates and rejects with
\* the event
OnSingleWorkerEvent ==
  /\ SingleWorker \in DOMAIN workers
  /\ workers[SingleWorker] = "running"
  /\ channel[SingleWorker] # <<>>
  /\ channel' = [channel EXCEPT ![SingleWorker] = Tail(@)]
  /\ \E data \in {Head(channel[SingleWorker])} :
       IF data.type = "progress"
       THEN /\ reported' = Append(reported, data.progress)
            /\ UNCHANGED <<workers, promise>>
       ELSE /\ workers' = [workers EXCEPT ![SingleWorker] = "terminated"]
            /\ reported' = reported
            /\ promise' =
                 IF promise.state # "pending" THEN promise
                 ELSE IF data.type = "done"
                 THEN [state |-> "resolved",
                       value |-> [results |-> data.results,
                                  handDistribution |-> data.handDistribution]]
                 ELSE IF data.type = "error"
                 THEN [state |-> "rejected", reason |-> Property(data, "error")]
                 ELSE [state |-> "rejected", reason |-> "ErrorEvent"]
  /\ UNCHANGED <<inputs, rng, pc, hand, deck, betTotals, handsAboveMinimum,
                 handsBelowMinimum, locals, summary, legacyLocals, application,
                 workerCount, hardwareConcurrency, handsPerWorker,
                 perWorkerProgress, workerPromises, settled, sent,
                 progressCalls, cancelRequested>>

SingleNext ==
  \/ simulateHands
  \/ SimulateHandReporting(MainThread)
  \/ Finish(MainThread)
  \/ runSimulationInWorker
  \/ SingleWorkerOnMessage
  \/ \E i \in DOMAIN workers :
       \/ WorkerHand(i)
       \/ WorkerDone(i)
       \/ WorkerThrows(i)
       \/ WorkerCrash(i)
  \/ OnSingleWorkerEvent

SingleSpec == SingleInit /\ [][SingleNext]_vars

(***************************************************************************)
(* Properties of performSimulation                                         *)
(***************************************************************************)
\* run r deals one hand in this step
HandStep(r) == hand'[r] = hand[r] + 1
\* ... and the player plays it / folds it
PlayedHand(r) == HandStep(r) /\ handsAboveMinimum'[r] = handsAboveMinimum[r] + 1
FoldedHand(r) == HandStep(r) /\ handsBelowMinimum'[r] = handsBelowMinimum[r] + 1

\* what this step adds to the accumulator of bet type k of run r
Delta(r, k) ==
  [totalBet  |-> betTotals'[r][k].totalBet - betTotals[r][k].totalBet,
   totalWon  |-> betTotals'[r][k].totalWon - betTotals[r][k].totalWon,
   handsWon  |-> betTotals'[r][k].handsWon - betTotals[r][k].handsWon,
   handsLost |-> betTotals'[r][k].handsLost - betTotals[r][k].handsLost]

Change(bet, won, hw, hl) ==
  [totalBet |-> bet, totalWon |-> won, handsWon |-> hw, handsLost |-> hl]

\* the stake of a played hand with a best flush of n cards: ante + play wager
TotalWagerOf(n) == IF n >= 6 THEN 4 ELSE IF n = 5 THEN 3 ELSE 2

C5_PlayWagerByLength ==
  [][\A r \in Runs : PlayedHand(r) =>
       LET n == Len(playerFlush'[r])
           d == Delta(r, BaseGame).totalBet
       IN  /\ n \in 3..7
           /\ n >= 6 => d = 3 * anteAmount + anteAmount
           /\ n = 5 => d = 2 * anteAmount + anteAmount
           /\ n \in {3, 4} => d = 1 * anteAmount + anteAmount]_vars

\* run A has played a flush of six or more cards (4 units) and then one
\* of four cards (2 units)
C5_Witness ==
  /\ hand["A"] = 2 /\ handsAboveMinimum["A"] = 2
  /\ Len(playerFlush["A"]) = 4
  /\ betTotals["A"][BaseGame].totalBet = 6

\* C6: on a folded hand the base-game accumulator changes by exactly
\* totalBet + 1 (the ante) and handsLost + 1, with totalWon and handsWon
\* unchanged, whatever the dealer holds.
C6_FoldLosesAnteOnly ==
  [][\A r \in Runs : FoldedHand(r) =>
       Delta(r, BaseGame) = Change(1, 0, 0, 1)]_vars

\* run A has just folded its second hand against a dealer who does not
\* qualify
C6_Witness ==
  /\ hand["A"] = 2 /\ handsBelowMinimum["A"] >= 1
  /\ playerShouldFold(playerFlush["A"], minThreeCardFlushRank)
  /\ ~dealerQualifies(dealerFlush["A"])
  /\ betTotals["A"][BaseGame].handsLost >= 1

\* C7: when the player plays and the dealer does not qualify, the hand is a
\* base-game win however the two flushes compare: handsWon + 1, totalBet +
\* totalWager (ante + play), totalWon + totalWager + ante.
C7_DealerNotQualifiedWins ==
  [][\A r \in Runs :
       (PlayedHand(r) /\ ~dealerQualifies(dealerFlush'[r])) =>
         LET w == TotalWagerOf(Len(playerFlush'[r]))
         IN  Delta(r, BaseGame) = Change(w, w + 1, 1, 0)]_vars

\* run A has just played a hand that a non-qualifying dealer's flush beats
C7_Witness ==
  /\ hand["A"] = 2 /\ handsAboveMinimum["A"] = 2
  /\ ~playerShouldFold(playerFlush["A"], minThreeCardFlushRank)
  /\ ~dealerQualifies(dealerFlush["A"])
  /\ compareFlushes(playerFlush["A"], dealerFlush["A"]) < 0
  /\ betTotals["A"][BaseGame].handsWon = 2

\* C8: when the player plays and the dealer qualifies, a positive
\* compareFlushes(playerFlush, dealerFlush) records a win with totalWon
\* increased by 2 x totalWager, a negative one a loss with handsLost + 1,
\* totalBet increased by totalWager and totalWon unchanged.
C8_OutcomeFollowsComparison ==
  [][\A r \in Runs :
       (PlayedHand(r) /\ dealerQualifies(dealerFlush'[r])) =>
         LET w == TotalWagerOf(Len(playerFlush'[r]))
             c == compareFlushes(playerFlush'[r], dealerFlush'[r])
         IN  /\ c > 0 => Delta(r, BaseGame) = Change(w, 2 * w, 1, 0)
             /\ c < 0 => Delta(r, BaseGame) = Change(w, 0, 0, 1)]_vars

\* run A won its first hand against a qualifying dealer and has just lost
\* its second to one
C8_Witness ==
  /\ hand["A"] = 2 /\ handsAboveMinimum["A"] = 2
  /\ dealerQualifies(dealerFlush["A"])
  /\ compareFlushes(playerFlush["A"], dealerFlush["A"]) < 0
  /\ betTotals["A"][BaseGame] = Change(4, 4, 1, 1)

\* C9: when the player plays, the dealer qualifies and compareFlushes
\* returns 0, the hand is a push: totalBet and totalWon both grow by
\* totalWager, and neither handsWon nor handsLost changes.
C9_TieIsPush ==
  [][\A r \in Runs :
       ( /\ PlayedHand(r)
         /\ dealerQualifies(dealerFlush'[r])
         /\ compareFlushes(playerFlush'[r], dealerFlush'[r]) = 0 ) =>
         LET w == TotalWagerOf(Len(playerFlush'[r]))
         IN  Delta(r, BaseGame) = Change(w, w, 0, 0)]_vars

\* run A has just tied a qualifying dealer
C9_Witness ==
  /\ hand["A"] >= 1 /\ handsAboveMinimum["A"] = hand["A"]
  /\ Len(playerFlush["A"]) >= 3
  /\ dealerQualifies(dealerFlush["A"])
  /\ compareFlushes(playerFlush["A"], dealerFlush["A"]) = 0
  /\ betTotals["A"][BaseGame].handsWon + betTotals["A"][BaseGame].handsLost
       = hand["A"] - 1

\* the flushRush table entry for a flush of n >= 4 cards
FlushRushEntry(cfg, n) ==
  CASE n = 4 -> cfg.flushRush.fourCard
    [] n = 5 -> cfg.flushRush.fiveCard
    [] n = 6 -> cfg.flushRush.sixCard
    [] OTHER -> cfg.flushRush.sevenCard

\* C10 (as stated): on every hand the Flush Rush bet loses its 1-unit stake
\* when the player's best flush has fewer than 4 cards, and otherwise pays
\* the table entry m for that length: totalWon + 1 + m and handsWon + 1.
C10_AsStated ==
  [][\A r \in Runs : HandStep(r) =>
       LET n == Len(playerFlush'[r])
       IN  IF n < 4
           THEN Delta(r, FlushRushBonus) = Change(1, 0, 0, 1)
           ELSE Delta(r, FlushRushBonus) =
                  Change(1, 1 + FlushRushEntry(payoutConfig, n), 1, 0)]_vars

\* C10 (amended): the Flush Rush bet wins exactly when the best flush has 4
\* or more cards and the table entry m for that length is positive, adding
\* 1 + m to totalWon and 1 to handsWon; with fewer than 4 cards, or with an
\* entry of 0, the 1-unit stake is lost.
C10_FlushRushPays ==
  [][\A r \in Runs : HandStep(r) =>
       LET n == Len(playerFlush'[r])
       IN  IF n >= 4 /\ FlushRushEntry(payoutConfig, n) > 0
           THEN Delta(r, FlushRushBonus) =
                  Change(1, 1 + FlushRushEntry(payoutConfig, n), 1, 0)
           ELSE Delta(r, FlushRushBonus) = Change(1, 0, 0, 1)]_vars

\* run A has lost the bet on a four-card flush whose entry is 0, and has
\* then been paid the sevenCard entry on a seven-card flush
C10_Witness ==
  /\ hand["A"] = 2 /\ Len(playerFlush["A"]) = 7
  /\ payoutConfig.flushRush.fourCard = 0
  /\ betTotals["A"][FlushRushBonus] =
       Change(2, 1 + payoutConfig.flushRush.sevenCard, 1, 1)

(***************************************************************************)
(* Properties of the helper functions                                      *)
(***************************************************************************)
\* C2: playerShouldFold(flush, threshold) is true exactly when the flush has
\* fewer than 3 cards, or has exactly 3 cards, threshold is not 0 and its
\* high card is below threshold; so every flush of 4 or more cards is played
\* for every threshold, and with threshold 0 every 3-card flush is played.
C2_FoldRule ==
  fn = "playerShouldFold" =>
    LET n == Len(arg.flush)
    IN  /\ ret = ( \/ n < 3
                   \/ (n = 3 /\ arg.minRank # 0 /\ arg.flush[1].rank < arg.minRank) )
        /\ n >= 4 => ret = FALSE
        /\ (n = 3 /\ arg.minRank = 0) => ret = FALSE

\* playerShouldFold has kept a 3-card flush whose high card is exactly the
\* minimum
C2_Witness ==
  /\ fn = "playerShouldFold"
  /\ Len(arg.flush) = 3 /\ arg.minRank = 9 /\ arg.flush[1].rank = 9
  /\ ret = FALSE

\* C4: dealerQualifies(flush) is true for every flush of more than 3 cards
\* whatever its ranks, false for every flush of fewer than 3 cards, and for
\* a 3-card flush true exactly when its high card is 9 or higher.
C4_DealerQualification ==
  fn = "dealerQualifies" =>
    LET n == Len(arg.flush)
    IN  /\ n > 3 => ret = TRUE
        /\ n < 3 => ret = FALSE
        /\ n = 3 => ret = (arg.flush[1].rank >= 9)

\* dealerQualifies has accepted a 9-high 3-card flush
C4_Witness ==
  /\ fn = "dealerQualifies"
  /\ Len(arg.flush) = 3 /\ arg.flush[1].rank = 9
  /\ ret = TRUE

(***************************************************************************)
(* Properties of simulateHands of simulation.ts                            *)
(***************************************************************************)
\* C3: simulateHands never folds a hand whose best flush has 4 or more
\* cards: whatever the minimum and the high card, getPlayWager returns a
\* non-zero wager for it and the hand is counted in aboveMinimum, not in
\* belowMinimum.
C3_LongFlushesAlwaysPlayed ==
  [][\A c \in LegacyCalls :
       (hand'[c] = hand[c] + 1 /\ Len(playerFlush'[c]) >= 4) =>
         /\ playWager'[c] # 0
         /\ handsAboveMinimum'[c] = handsAboveMinimum[c] + 1
         /\ handsBelowMinimum'[c] = handsBelowMinimum[c]]_vars

(***************************************************************************)
(* Properties of the side bets of performSimulation                        *)
(***************************************************************************)
\* the superFlushRush table entry for a straight flush of n >= 3 cards
SuperFlushRushEntry(cfg, n) ==
  CASE n = 3 -> cfg.superFlushRush.threeCardStraight
    [] n = 4 -> cfg.superFlushRush.fourCardStraight
    [] n = 5 -> cfg.superFlushRush.fiveCardStraight
    [] n = 6 -> cfg.superFlushRush.sixCardStraight
    [] OTHER -> cfg.superFlushRush.sevenCardStraight

\* C11 (as stated): on every hand the Super Flush Rush bet loses its 1-unit
\* stake when the player's longest straight flush S has fewer than 3 cards,
\* and otherwise pays the table entry m for S: totalWon + 1 + m and
\* handsWon + 1.
C11_AsStated ==
  [][\A r \in Runs : HandStep(r) =>
       LET n == playerStraightLength'[r]
       IN  IF n < 3
           THEN Delta(r, SuperFlushRushBonus) = Change(1, 0, 0, 1)
           ELSE Delta(r, SuperFlushRushBonus) =
                  Change(1, 1 + SuperFlushRushEntry(payoutConfig, n), 1, 0)]_vars

\* C11 (amended): the Super Flush Rush bet wins exactly when S >= 3 and the
\* table entry m for S is positive, adding 1 + m to totalWon and 1 to
\* handsWon; with S < 3, or with an entry of 0, the 1-unit stake is lost.
C11_SuperFlushRushPays ==
  [][\A r \in Runs : HandStep(r) =>
       LET n == playerStraightLength'[r]
       IN  IF n >= 3 /\ SuperFlushRushEntry(payoutConfig, n) > 0
           THEN Delta(r, SuperFlushRushBonus) =
                  Change(1, 1 + SuperFlushRushEntry(payoutConfig, n), 1, 0)
           ELSE Delta(r, SuperFlushRushBonus) = Change(1, 0, 0, 1)]_vars

\* run A has been paid the threeCardStraight entry on a 3-card straight
\* flush after losing the bet on a hand without one
C11_Witness ==
  /\ hand["A"] = 2 /\ playerStraightLength["A"] = 3
  /\ payoutConfig.superFlushRush.threeCardStraight > 0
  /\ betTotals["A"][SuperFlushRushBonus] =
       Change(2, 1 + payoutConfig.superFlushRush.threeCardStraight, 1, 1)

\* C12: both side bets are resolved on every hand whatever the base game
\* did: after h hands of a run, the Flush Rush and the Super Flush Rush
\* accumulators each have totalBet = h and handsWon + handsLost = h, folded
\* hands included.
C12_SideBetsEveryHand ==
  \A r \in Runs : \A k \in {FlushRushBonus, SuperFlushRushBonus} :
    /\ betTotals[r][k].totalBet = hand[r]
    /\ betTotals[r][k].handsWon + betTotals[r][k].handsLost = hand[r]

\* run A has folded one hand and played one, and has placed both side bets
\* on each
C12_Witness ==
  /\ hand["A"] = 2
  /\ handsBelowMinimum["A"] = 1 /\ handsAboveMinimum["A"] = 1
  /\ betTotals["A"][FlushRushBonus].totalBet = 2
  /\ betTotals["A"][SuperFlushRushBonus].totalBet = 2

(***************************************************************************)
(* Properties of the deck and hand helpers                                 *)
(***************************************************************************)
\* the number of places of the sequence s that hold x
Occurrences(s, x) == Cardinality({i \in 1..Len(s) : s[i] = x})

\* the elements of the sequence s
Elements(s) == {s[i] : i \in 1..Len(s)}

\* t holds the elements of s, each as often as s holds it
IsPermutation(s, t) ==
  /\ Len(s) = Len(t)
  /\ \A x \in Elements(s) \cup Elements(t) : Occurrences(s, x) = Occurrences(t, x)

\* C13: shuffleDeckWithRng leaves the deck it is given as it was and
\* returns a permutation of it, whatever values in [0,1) the generator
\* returns; of the deck of createDeck it returns 52 cards, all distinct,
\* the same set of cards.
C13_ShuffleIsPermutation ==
  fn = "shuffleDeckWithRng" =>
    /\ ret.input = arg.deck
    /\ IsPermutation(arg.deck, ret.deck)
    /\ arg.deck = createDeck =>
         /\ Len(ret.deck) = 52
         /\ Cardinality(Elements(ret.deck)) = 52
         /\ Elements(ret.deck) = Elements(createDeck)

\* a shuffle of the deck of createDeck that moves cards
C13_Witness ==
  /\ fn = "shuffleDeckWithRng"
  /\ arg.deck = createDeck
  /\ ret.deck # createDeck
  /\ ret.input = createDeck

Sign(n) == IF n > 0 THEN 1 ELSE IF n < 0 THEN -1 ELSE 0

\* the ranks of the cards of a flush, in its order
RanksOf(flush) == [i \in 1..Len(flush) |-> flush[i].rank]

\* the difference of the ranks at the first place where two flushes of the
\* same length differ, 0 when they differ nowhere
FirstRankDifference(a, b) ==
  LET differ == {i \in 1..Len(a) : a[i].rank # b[i].rank}
  IN  IF differ = {} THEN 0
      ELSE LET i == CHOOSE i \in differ : \A k \in differ : i <= k
           IN  a[i].rank - b[i].rank

\* C14: for flushes sorted by descending rank, compareFlushes(a, b) is
\* positive when a has more cards than b, whatever the ranks; for equal
\* lengths its sign is that of the first rank difference from the highest
\* card down; it is 0 exactly when lengths and rank sequences are equal.
C14_CompareFlushes ==
  fn = "compareFlushes" =>
    LET a == arg.firstFlush
        b == arg.secondFlush
    IN  /\ Len(a) > Len(b) => ret > 0
        /\ Len(a) = Len(b) => Sign(ret) = Sign(FirstRankDifference(a, b))
        /\ ret = 0 <=> (Len(a) = Len(b) /\ RanksOf(a) = RanksOf(b))

\* a longer flush of lower ranks compared with a shorter one of higher ranks
C14_Witness ==
  /\ fn = "compareFlushes"
  /\ Len(arg.firstFlush) > Len(arg.secondFlush)
  /\ Len(arg.secondFlush) > 0
  /\ arg.firstFlush[1].rank < arg.secondFlush[1].rank
  /\ ret > 0

\* the cards of one suit in a hand, in the order of the hand
SuitGroup(cards, suit) == SelectSeq(cards, LAMBDA c : c.suit = suit)

\* the suit groups of a hand: one for each suit the hand holds
SuitGroups(cards) == {SuitGroup(cards, c.suit) : c \in Elements(cards)}

\* C15: for a hand sorted by suit then descending rank, findBestFlush
\* returns one of the suit groups of the hand, and no suit group compares
\* greater under compareFlushes; the cards returned share one suit and their
\* ranks strictly decrease; an empty hand yields an empty flush.
C15_BestFlush ==
  fn = "findBestFlush" =>
    /\ arg.hand = <<>> => ret = <<>>
    /\ arg.hand # <<>> =>
         /\ ret \in SuitGroups(arg.hand)
         /\ \A g \in SuitGroups(arg.hand) : compareFlushes(g, ret) <= 0
    /\ \A i \in 1..Len(ret) : ret[i].suit = ret[1].suit
    /\ \A i \in 1..(Len(ret) - 1) : ret[i].rank > ret[i + 1].rank

\* a hand of three suits whose best flush is not the first group
C15_Witness ==
  /\ fn = "findBestFlush"
  /\ Cardinality(SuitGroups(arg.hand)) = 3
  /\ Len(arg.hand) = HandSize
  /\ ret # SuitGroup(arg.hand, arg.hand[1].suit)
  /\ Len(ret) = Len(SuitGroup(arg.hand, arg.hand[1].suit))

\* the greatest number of consecutive values the set R of ranks holds
LongestRun(R) ==
  LET sizes == {b - a + 1 : <<a, b>> \in
                  {p \in R \X R : p[1] <= p[2] /\ \A x \in p[1]..p[2] : x \in R}}
                 \cup {0}
  IN  CHOOSE m \in sizes : \A x \in sizes : x <= m

\* the ranks of R with the ace counted as 1
AceAsOne(R) == IF 14 \in R THEN (R \ {14}) \cup {1} ELSE R

\* the ranks a hand holds in one suit
RanksInSuit(cards, suit) == {c.rank : c \in {d \in Elements(cards) : d.suit = suit}}

\* the greatest size of a set of cards of one suit with consecutive ranks,
\* the ace counted as 14 or as 1
LongestSuitedRun(cards) ==
  LET sizes == {Max(LongestRun(RanksInSuit(cards, c.suit)),
                    LongestRun(AceAsOne(RanksInSuit(cards, c.suit)))) :
                  c \in Elements(cards)} \cup {0}
  IN  CHOOSE m \in sizes : \A x \in sizes : x <= m

\* C16: for a hand of up to 7 cards sorted by suit then descending rank,
\* findLongestStraightFlush returns the greatest size of a set of cards of
\* one suit with consecutive ranks, the ace counted as 14 or as 1: the
\* maximum of the two checks over the suits, never their sum, and never a
\* run across suits.
C16_LongestStraightFlush ==
  fn = "findLongestStraightFlush" => ret = LongestSuitedRun(arg.hand)

\* A,5,4,3,2 of one suit, with two cards of another suit, gives 5
C16_Witness ==
  /\ fn = "findLongestStraightFlush"
  /\ Len(arg.hand) = HandSize
  /\ RanksInSuit(arg.hand, "spade") = {14, 5, 4, 3, 2}
  /\ RanksInSuit(arg.hand, "heart") = {2, 13}
  /\ ret = 5

(***************************************************************************)
(* Properties of the summaries                                             *)
(***************************************************************************)
\* the percentage is the number 0
IsZero(p) == p.kind = "finite" /\ p.num = 0

\* C17: in every SimulationResult returned by performSimulation,
\* expectedReturn is 0 when totalBet is 0 and winRate is 0 when handsWon +
\* handsLost is 0 (a run of pushes, a run of zero hands); neither is NaN.
C17_ZeroDenominatorYieldsZero ==
  \A r \in Runs :
    pc[r] = "done" =>
      \A k \in 1..Len(summary[r].results) :
        LET res == summary[r].results[k]
        IN  /\ res.totalBet = 0 => IsZero(res.expectedReturn)
            /\ res.handsWon + res.handsLost = 0 => IsZero(res.winRate)
            /\ res.expectedReturn.kind # "NaN"
            /\ res.winRate.kind # "NaN"

\* C18: a call of performSimulation (and so of simulateHands) with
\* numHands <= 0 fails with a validation error before any hand is
\* simulated; it never returns a summary.
C18_NonPositiveNumHandsRejected ==
  numHands <= 0 => \A r \in Runs : pc[r] # "done" /\ summary[r] = NoSummary

(***************************************************************************)
(* Properties of runSimulationInWorkers                                    *)
(***************************************************************************)
\* the number of workers asked for, or else the hardware parallelism (4
\* when the browser gives none), kept within 1..n
ExpectedWorkers(a) ==
  LET wanted == IF a.workerCount # <<>> THEN a.workerCount[1]
                ELSE IF a.hardwareConcurrency \in {<<>>, <<0>>} THEN 4
                ELSE a.hardwareConcurrency[1]
  IN  IF wanted < 1 THEN 1
      ELSE IF wanted > a.numHands THEN a.numHands
      ELSE wanted

\* C19: for n >= 1 hands runSimulationInWorkers uses k = max(1, min(asked
\* or hardware parallelism, n)) workers; worker i gets floor(n / k) hands
\* and one more when i < n mod k; the sizes sum to n, differ pairwise by at
\* most 1, and every worker gets at least one hand.
C19_EvenPartition ==
  fn = "handsPerWorker" =>
    LET n == arg.numHands
        k == ExpectedWorkers(arg)
    IN  /\ DOMAIN ret = 0..(k - 1)
        /\ \A i \in DOMAIN ret :
              ret[i] = (n \div k) + (IF i < n % k THEN 1 ELSE 0)
        /\ SumTo(ret, k - 1) = n
        /\ \A i, j \in DOMAIN ret : ret[i] - ret[j] <= 1
        /\ \A i \in DOMAIN ret : ret[i] >= 1

\* 11 hands over 3 workers: 4, 4 and 3
C19_Witness ==
  /\ fn = "handsPerWorker"
  /\ arg.numHands = 11
  /\ arg.workerCount = <<3>>
  /\ ret = [i \in 0..2 |-> IF i < 2 THEN 4 ELSE 3]

\* the element of a list of results for a bet type
ResultFor(results, betType) ==
  results[CHOOSE k \in 1..Len(results) : results[k].betType = betType]

\* the sum over the workers of one field of the results they posted for a
\* bet type
SumOfParts(betType, field) ==
  SumTo([i \in DOMAIN summary |-> ResultFor(summary[i].results, betType)[field]],
        Cardinality(DOMAIN summary) - 1)

\* the sum over the workers of one field of the hand distributions they
\* posted
SumOfDistributions(field) ==
  SumTo([i \in DOMAIN summary |-> summary[i].handDistribution[field]],
        Cardinality(DOMAIN summary) - 1)

\* C20: the summary runSimulationInWorkers resolves with has, for each bet
\* type, totalBet, totalWon, handsWon and handsLost equal to the sums over
\* the done messages of the workers, and totalHands (= numHands),
\* aboveMinimum and belowMinimum equal to the sums of their hand
\* distributions; expectedReturn and winRate are computed from the merged
\* totals.
C20_MergeIsFieldwiseSum ==
  promise.state = "resolved" =>
    /\ Len(promise.value.results) = Len(BetTypes)
    /\ \A k \in 1..Len(BetTypes) :
         LET merged == ResultFor(promise.value.results, BetTypes[k])
         IN  /\ \A f \in {"totalBet", "totalWon", "handsWon", "handsLost"} :
                  merged[f] = SumOfParts(BetTypes[k], f)
             /\ merged.expectedReturn =
                  IF merged.totalBet = 0 THEN Percent(0, 1)
                  ELSE Percent(merged.totalWon - merged.totalBet, merged.totalBet)
             /\ merged.winRate =
                  IF merged.handsWon + merged.handsLost = 0 THEN Percent(0, 1)
                  ELSE Percent(merged.handsWon, merged.handsWon + merged.handsLost)
    /\ promise.value.handDistribution.totalHands = numHands
    /\ \A f \in {"totalHands", "aboveMinimum", "belowMinimum"} :
         promise.value.handDistribution[f] = SumOfDistributions(f)

\* three hands split over two workers, merged: the base game of the first
\* worker and that of the second both count
C20_Witness ==
  /\ promise.state = "resolved"
  /\ numHands = 3
  /\ DOMAIN workers = {0, 1}
  /\ ResultFor(promise.value.results, FlushRushBonus).totalBet = 3
  /\ ResultFor(summary[0].results, BaseGame).totalBet > 0
  /\ ResultFor(summary[1].results, BaseGame).totalBet > 0
  /\ ResultFor(promise.value.results, BaseGame).totalBet =
       ResultFor(summary[0].results, BaseGame).totalBet
         + ResultFor(summary[1].results, BaseGame).totalBet

(***************************************************************************)
(* Properties of the hands and accumulators of performSimulation           *)
(***************************************************************************)
\* C27: in every hand of performSimulation the 7 cards of the player and
\* the 7 cards of the dealer are the first 14 cards of one shuffle of the
\* full 52-card deck: 14 distinct cards, none in both hands; and the deck
\* created at the start of the run is unchanged after the hand.
C27_FreshDealEveryHand ==
  [][\A r \in Runs : HandStep(r) =>
       LET shuffled == shuffleDeckWithRng(createDeck, rng[r]).deck
       IN  /\ IsPermutation(playerHand'[r], SubSeq(shuffled, 1, 7))
           /\ IsPermutation(dealerHand'[r], SubSeq(shuffled, 8, 14))
           /\ Cardinality(Elements(playerHand'[r]) \cup Elements(dealerHand'[r])) = 14
           /\ Elements(playerHand'[r]) \cap Elements(dealerHand'[r]) = {}
           /\ Elements(playerHand'[r]) \cup Elements(dealerHand'[r])
                \subseteq Elements(createDeck)
           /\ deck[r] = createDeck
           /\ deck'[r] = createDeck]_vars

\* run A has dealt two hands, the second not the first again
C27_Witness ==
  /\ hand["A"] = 2
  /\ deck["A"] = createDeck
  /\ Len(playerHand["A"]) = 7 /\ Len(dealerHand["A"]) = 7
  /\ playerHand["A"] # dealerHand["A"]
  /\ rng["A"] # mulberry32(randomSeed)

\* every multiplier of the payout tables is at least 0
NonNegativePayouts(cfg) ==
  /\ \A f \in DOMAIN cfg.flushRush : cfg.flushRush[f] >= 0
  /\ \A f \in DOMAIN cfg.superFlushRush : cfg.superFlushRush[f] >= 0

\* C29: after every hand of a run with non-negative payout multipliers the
\* four fields of each of the three accumulators are non-negative and none
\* is smaller than after the previous hand; totalBet of every accumulator
\* strictly grows on every hand.
C29_AccumulatorsGrow ==
  [][\A r \in Runs : (HandStep(r) /\ NonNegativePayouts(payoutConfig)) =>
       \A k \in {BaseGame, FlushRushBonus, SuperFlushRushBonus} :
         /\ \A f \in {"totalBet", "totalWon", "handsWon", "handsLost"} :
              /\ betTotals'[r][k][f] >= 0
              /\ betTotals'[r][k][f] >= betTotals[r][k][f]
         /\ betTotals'[r][k].totalBet > betTotals[r][k].totalBet]_vars

\* run A after a second hand that was a base-game push: its stake is in
\* totalBet and in totalWon
C29_Witness ==
  /\ hand["A"] = 2
  /\ NonNegativePayouts(payoutConfig)
  /\ compareFlushes(playerFlush["A"], dealerFlush["A"]) = 0
  /\ ~playerShouldFold(playerFlush["A"], minThreeCardFlushRank)
  /\ dealerQualifies(dealerFlush["A"])
  /\ betTotals["A"][BaseGame].totalBet >= 4

\* the player folds the flush: fewer than 3 cards, or 3 cards with a high
\* card under a minimum that is set
Folds(flush, minRank) ==
  \/ Len(flush) < 3
  \/ Len(flush) = 3 /\ minRank # 0 /\ flush[1].rank < minRank

\* C30: after h hands of performSimulation aboveMinimum + belowMinimum = h,
\* belowMinimum counts the folded hands, every folded hand is a base-game
\* loss (base handsLost >= belowMinimum, base handsWon + handsLost <= h);
\* the handDistribution returned for numHands >= 0 has totalHands =
\* numHands = aboveMinimum + belowMinimum.
C30_HandDistribution ==
  [][\A r \in Runs :
       /\ HandStep(r) =>
            /\ handsBelowMinimum'[r] - handsBelowMinimum[r] =
                 (IF Folds(playerFlush'[r], minThreeCardFlushRank) THEN 1 ELSE 0)
            /\ Folds(playerFlush'[r], minThreeCardFlushRank) =>
                 Delta(r, BaseGame).handsLost = 1
            /\ handsAboveMinimum'[r] + handsBelowMinimum'[r] = hand'[r]
            /\ betTotals'[r][BaseGame].handsLost >= handsBelowMinimum'[r]
            /\ betTotals'[r][BaseGame].handsWon + betTotals'[r][BaseGame].handsLost
                 <= hand'[r]
       /\ (pc[r] = "loop" /\ pc'[r] = "done" /\ numHands >= 0) =>
            LET d == summary'[r].handDistribution
            IN  /\ d.totalHands = numHands
                /\ d.totalHands = d.aboveMinimum + d.belowMinimum
                /\ d.aboveMinimum = handsAboveMinimum[r]
                /\ d.belowMinimum = handsBelowMinimum[r]]_vars

\* run A has returned after one folded and one played hand
C30_Witness ==
  /\ pc["A"] = "done"
  /\ numHands = 2
  /\ summary["A"].handDistribution.totalHands = 2
  /\ summary["A"].handDistribution.aboveMinimum = 1
  /\ summary["A"].handDistribution.belowMinimum = 1
  /\ betTotals["A"][BaseGame].handsLost >= 1

(***************************************************************************)
(* Properties of mulberry32                                                *)
(***************************************************************************)
\* w is an integer of 0..2^32-1
IsUint32(w) == w[1] \in 0..(Half - 1) /\ w[2] \in 0..(Half - 1)

\* C26: mulberry32(seed) keeps a 32-bit state: after each call the state is
\* (previous state + 0x6D2B79F5) mod 2^32, within 0..2^32-1; every output
\* is an integer of 0..2^32-1 over 2^32; two generators of the same seed
\* return the same value at every index.
C26_StateStays32Bit ==
  fn = "mulberry32" =>
    /\ \A k \in 1..Len(ret) :
         /\ IsUint32(ret[k].t)
         /\ ret[k].t = AddW(IF k = 1 THEN ToUint32(ToWord(arg.seed)) ELSE ret[k - 1].t,
                            <<MulberryIncHi, MulberryIncLo>>)
         /\ IsUint32(ret[k].value)
    /\ ret = CallsLoop(mulberry32(arg.seed), arg.calls, <<>>)

(***************************************************************************)
(* Properties of the progress reports and the yield of performSimulation   *)
(***************************************************************************)
\* what a run owns: its generator, its deck and its accumulators
PrivateState(r) ==
  <<rng[r], deck[r], betTotals[r], handsAboveMinimum[r], handsBelowMinimum[r],
    hand[r]>>

\* a step in which run r itself does nothing
OtherTaskStep(r) == pc'[r] = pc[r] /\ hand'[r] = hand[r]

PercentLeq(a, b) ==
  /\ a.kind = "finite" /\ b.kind = "finite"
  /\ a.num * b.den <= b.num * a.den

\* every value of the sequence is within 0..100 and none is below the one
\* before it
WithinRangeAndNonDecreasing(values) ==
  /\ \A k \in 1..Len(values) :
       /\ PercentLeq(Percent(0, 1), values[k])
       /\ PercentLeq(values[k], Percent(1, 1))
  /\ \A k \in 1..(Len(values) - 1) : PercentLeq(values[k], values[k + 1])

\* C23: the progress values one performSimulation run of numHands >= 1 hands
\* passes to onProgress are all within 0..100 and never decrease from one
\* report to the next
C23_ProgressWithinRangeAndMonotone ==
  fn = "progressReports" => WithinRangeAndNonDecreasing(ret)

\* a run of 201 hands reports every second hand: 101 reports, the last one
\* 200/201 of 100
C23_Witness ==
  /\ fn = "progressReports"
  /\ arg.hands = 201
  /\ Len(ret) = 101
  /\ ret[101] = Percent(200, 201)
  /\ WithinRangeAndNonDecreasing(ret)

(***************************************************************************)
(* Cancellation of performSimulation                                       *)
(***************************************************************************)
\* C25: once the caller's cancellation signal has fired, a run that is in
\* its hand loop plays no further hand and does not return a summary
C25_CancellationStopsLoop ==
  [][\A r \in Runs :
       cancelRequested /\ pc[r] = "loop"
         => hand'[r] = hand[r] /\ pc'[r] # "done"]_vars

(***************************************************************************)
(* Reproducibility of runSimulationInWorkers                               *)
(***************************************************************************)
RECURSIVE SequentialRun(_, _, _, _, _, _)
\* performSimulation(n, ...) with generator g run from hand h to its end
\* without interruption, from the accumulators given
SequentialRun(g, n, h, totals, above, below) ==
  IF h >= n THEN SimulationSummary(totals, n, above, below)
  ELSE LET sh      == shuffleDeckWithRng(createDeck, g)
           pHand   == sortHandBySuitThenRank(slice(sh.deck, 0, HandSize))
           dHand   == sortHandBySuitThenRank(slice(sh.deck, HandSize, 2 * HandSize))
           pFlush  == findBestFlush(pHand)
           dFlush  == findBestFlush(dHand)
           sLength == findLongestStraightFlush(pHand)
           fold    == playerShouldFold(pFlush, minThreeCardFlushRank)
           next    == [totals EXCEPT
                         ![BaseGame] =
                            ResolveBaseGame(@, pFlush, dFlush, minThreeCardFlushRank),
                         ![FlushRushBonus] = ResolveFlushRush(@, pFlush, payoutConfig),
                         ![SuperFlushRushBonus] =
                            ResolveSuperFlushRush(@, sLength, payoutConfig)]
       IN  SequentialRun(sh.rng, n, h + 1, next,
                         IF fold THEN above ELSE above + 1,
                         IF fold THEN below + 1 ELSE below)

\* what worker i of count returns when it runs alone on the seed
\* stringToSeed(String(seed) + ':' + i)
WorkerAlone(seed, i, n) ==
  SequentialRun([kind |-> "mulberry32",
                 t |-> ToUint32(stringToSeed(NumberToString(seed) \o <<":">>
                                               \o NumberToString(i)))],
                n, 0,
                [k \in {BaseGame, FlushRushBonus, SuperFlushRushBonus} |-> BetResults],
                0, 0)

\* the merge, in the order of the worker numbers, of what the workers
\* return when each runs alone: a function of seed, workerCount (with the
\* concurrency of the machine) and numHands only
MergedAlone ==
  LET count == WorkerCount(workerCount, hardwareConcurrency, numHands)
      split == HandsPerWorker(numHands, count)
  IN  Aggregate([i \in 0..(count - 1) |-> WorkerAlone(randomSeed[1], i, split[i])])

\* C21: with a seed, whatever the interleaving of the workers and the order
\* in which they complete, runSimulationInWorkers resolves with the merge
\* of the summaries the workers compute alone from the seeds
\* stringToSeed(String(seed) + ':' + i), the results in the order of the
\* bet types
C21_SeededRunIsReproducible ==
  promise.state = "resolved" /\ randomSeed # <<>> =>
    /\ promise.value = MergedAlone
    /\ \A k \in 1..Len(BetTypes) : promise.value.results[k].betType = BetTypes[k]

\* a seeded run of three hands on three workers has resolved with the merge
\* of the three lone runs, one hand each
C21_Witness ==
  /\ promise.state = "resolved"
  /\ randomSeed = <<1>>
  /\ numHands = 3
  /\ DOMAIN workers = {0, 1, 2}
  /\ promise.value = MergedAlone
  /\ promise.value.results[2].betType = FlushRushBonus
  /\ promise.value.results[2].totalBet = 3

(***************************************************************************)
(* Failure of a worker of runSimulationInWorkers                           *)
(***************************************************************************)
\* some worker has posted an error message or raised onerror
AnyWorkerFailed == \E i \in DOMAIN workers : pc[i] = "failed"

\* C22: once a worker has posted an error message or raised onerror,
\* whatever the others have done, the returned promise is never resolved
\* with a summary, it is eventually rejected, a rejected promise keeps its
\* one error, and at the rejection every spawned worker is terminated
C22_FailureRejectsAndTerminatesAll ==
  /\ [](AnyWorkerFailed => promise.state # "resolved")
  /\ [](promise.state = "rejected" =>
          settled /\ \A j \in DOMAIN workers : workers[j] = "terminated")
  /\ [][promise.state = "rejected" => promise' = promise]_vars
  /\ (AnyWorkerFailed ~> promise.state = "rejected")

\* a worker threw after another worker had completed and its done message
\* had been handled: the promise is rejected with the error of the thrower,
\* every worker is terminated and the part of the completed worker is
\* dropped
C22_Witness ==
  /\ promise = [state |-> "rejected", reason |-> "TypeError"]
  /\ \E j \in DOMAIN workers : workerPromises[j].state = "fulfilled"
  /\ \A j \in DOMAIN workers : workers[j] = "terminated"

(***************************************************************************)
(* Global progress of runSimulationInWorkers                               *)
(***************************************************************************)
RECURSIVE WeightedSum(_, _, _)
\* the sum over the workers 0..k of percent x hands, as <<numerator,
\* denominator>>
WeightedSum(progress, hands, k) ==
  IF k < 0 THEN <<0, 1>>
  ELSE LET s == WeightedSum(progress, hands, k - 1)
       IN  <<s[1] * progress[k].den + progress[k].num * hands[k] * s[2],
             s[2] * progress[k].den>>

\* value is the hands-weighted average of the last percentages reported by
\* the workers: value x numHands = sum of percent x hands
IsWeightedAverage(value, progress, hands, n) ==
  LET s == WeightedSum(progress, hands, Cardinality(DOMAIN progress) - 1)
  IN  /\ value.kind = "finite"
      /\ value.num * n * s[2] = s[1] * value.den

\* C28: the value runSimulationInWorkers passed to onProgress last is the
\* sum over the workers of (last reported percent) x (hands of the worker)
\* divided by numHands, and the values passed so far are within 0..100 and
\* never decrease
C28_GlobalProgressIsWeightedAverage ==
  reported # <<>> =>
    /\ IsWeightedAverage(reported[Len(reported)], perWorkerProgress,
                         handsPerWorker, numHands)
    /\ WithinRangeAndNonDecreasing(reported)

\* three hands on two workers: after the reports 0 of both workers, worker 0
\* reports 50 for the second of its two hands and the global value is 100/3
C28_Witness ==
  /\ numHands = 3
  /\ DOMAIN workers = {0, 1}
  /\ handsPerWorker = [i \in {0, 1} |-> 2 - i]
  /\ Len(reported) = 3
  /\ perWorkerProgress = [i \in {0, 1} |-> Percent(1 - i, 2)]
  /\ reported[3] = Percent(1, 3)

(***************************************************************************)
(* Properties of stringToSeed                                              *)
(***************************************************************************)
\* x * 2^k mod 2^32, by k doublings
RECURSIVE ShiftLeft(_, _)
ShiftLeft(x, k) == IF k = 0 THEN x ELSE ShiftLeft(AddW(x, x), k - 1)

\* x * 16777619 mod 2^32, with 16777619 = 2^24 + 2^8 + 2^7 + 2^4 + 2 + 1
TimesFnvPrime(x) ==
  AddW(AddW(AddW(x, ShiftLeft(x, 1)), AddW(ShiftLeft(x, 4), ShiftLeft(x, 7))),
       AddW(ShiftLeft(x, 8), ShiftLeft(x, 24)))

\* the exclusive or of the hash with a character value, bit by bit
XorChar(h, c) == <<h[1], XorBits(h[2], c)>>

RECURSIVE Fnv1a(_, _)
\* the 32-bit FNV-1a hash of the first n characters of str
Fnv1a(str, n) ==
  IF n = 0 THEN <<33052, 40389>>
  ELSE TimesFnvPrime(XorChar(Fnv1a(str, n - 1), CharCode(str[n])))

\* C38: stringToSeed(s) is the 32-bit FNV-1a hash of s, from the basis
\* 2166136261 (33052 * 2^16 + 40389) with the character mixed in by
\* exclusive or before the multiplication by 16777619 modulo 2^32, and is
\* an integer of 0..2^32-1
C38_StringToSeedIsFnv1a ==
  fn = "stringToSeed" =>
    /\ ret = Fnv1a(arg.str, Len(arg.str))
    /\ IsUint32(ret)

\* the hash of "foobar" is 0xbf9cf968
C38_Witness ==
  /\ fn = "stringToSeed"
  /\ arg.str = <<"f", "o", "o", "b", "a", "r">>
  /\ ret = <<49052, 63848>>

(***************************************************************************)
(* compareFlushes as an ordering                                           *)
(***************************************************************************)
\* the accumulator of the base game after one played hand of total wager w
\* recorded as a win, as a loss, as a push
WinOf(w)  == [totalBet |-> w, totalWon |-> 2 * w, handsWon |-> 1, handsLost |-> 0]
LossOf(w) == [totalBet |-> w, totalWon |-> 0, handsWon |-> 0, handsLost |-> 1]
PushOf(w) == [totalBet |-> w, totalWon |-> w, handsWon |-> 0, handsLost |-> 0]

\* C36: compareFlushes(b, a) has the sign opposite to compareFlushes(a, b),
\* compareFlushes(a, a) = 0, a > b and b > c give a > c, and a played hand
\* a against a qualifying dealer flush b is recorded as exactly one of win,
\* loss and push, by the sign of compareFlushes(a, b)
C36_CompareFlushesIsConsistentOrdering ==
  fn = "compareFlushes" =>
    LET a == arg.firstFlush
        b == arg.secondFlush
        w == anteAmount + getMaxPlayWager(Len(a), anteAmount)
        r == ResolveBaseGame(BetResults, a, b, 9)
    IN  /\ Sign(compareFlushes(b, a)) = -Sign(ret)
        /\ compareFlushes(a, a) = 0 /\ compareFlushes(b, b) = 0
        /\ \A cRanks \in SUBSET ComparedRanks :
             LET c == DescendingFlush(cRanks, "club")
             IN  ret > 0 /\ compareFlushes(b, c) > 0 => compareFlushes(a, c) > 0
        /\ ~playerShouldFold(a, 9) /\ dealerQualifies(b) =>
             /\ ret > 0 => r = WinOf(w)
             /\ ret < 0 => r = LossOf(w)
             /\ ret = 0 => r = PushOf(w)
             /\ Cardinality({WinOf(w), LossOf(w), PushOf(w)}) = 3

\* two playable three-card flushes that differ in the last card only, the
\* dealer's qualifying: the player's 14-13-10 beats 14-13-9, which in turn
\* beats a two-card flush
C36_Witness ==
  /\ fn = "compareFlushes"
  /\ RanksOf(arg.firstFlush) = <<14, 13, 10>>
  /\ RanksOf(arg.secondFlush) = <<14, 13, 9>>
  /\ ret > 0
  /\ compareFlushes(arg.secondFlush, arg.firstFlush) < 0
  /\ compareFlushes(arg.secondFlush, DescendingFlush({14, 13}, "club")) > 0
  /\ dealerQualifies(arg.secondFlush)
  /\ ResolveBaseGame(BetResults, arg.firstFlush, arg.secondFlush, 9) = WinOf(2)

(***************************************************************************)
(* Properties of sortHandBySuitThenRank and divideHandIntoSuits            *)
(***************************************************************************)
\* the place of a suit in the order spade, heart, diamond, club
SuitPlace(suit) ==
  CHOOSE k \in 1..4 : <<"spade", "heart", "diamond", "club">>[k] = suit

\* the cards are ordered by suit and, within a suit, by descending rank
OrderedBySuitThenRank(cards) ==
  \A i, j \in 1..Len(cards) :
    i < j => \/ SuitPlace(cards[i].suit) < SuitPlace(cards[j].suit)
             \/ /\ cards[i].suit = cards[j].suit
                /\ cards[i].rank >= cards[j].rank

\* C37: sortHandBySuitThenRank returns a permutation of its input, ordered
\* by suit (spade, heart, diamond, club) and by descending rank within a
\* suit, and leaves its input as it was; the groups divideHandIntoSuits
\* makes of the result are, one for each suit of the hand, the cards of
\* that suit in descending rank order
C37_SortedBySuitThenRank ==
  fn = "sortHandBySuitThenRank" =>
    /\ ret.input = arg.cards
    /\ IsPermutation(ret.result, arg.cards)
    /\ OrderedBySuitThenRank(ret.result)
    /\ LET suits == {arg.cards[i].suit : i \in 1..Len(arg.cards)}
       IN  /\ Len(ret.groups) = Cardinality(suits)
           /\ {ret.groups[g] : g \in 1..Len(ret.groups)} =
                {DescendingFlush({arg.cards[i].rank :
                                    i \in {k \in 1..Len(arg.cards) :
                                              arg.cards[k].suit = s}}, s) :
                   s \in suits}

\* the hand of the test of the sorting helpers: three spades 14-10-9 come
\* first, then the hearts 11-2, then the clubs 13-2
C37_Witness ==
  /\ fn = "sortHandBySuitThenRank"
  /\ Len(arg.cards) = 7
  /\ arg.cards[1] = [rank |-> 2, suit |-> "heart"]
  /\ RanksOf(ret.result) = <<14, 10, 9, 11, 2, 13, 2>>
  /\ Len(ret.groups) = 3
  /\ RanksOf(ret.groups[1]) = <<14, 10, 9>>
  /\ ret.input = arg.cards

(***************************************************************************)
(* The straight-flush searches of the two engines                          *)
(***************************************************************************)
\* C35: on every hand sorted by suit then descending rank, the length of
\* the card list simulation.ts finds and the number simulation-core finds
\* select the same Super Flush Rush payout
C35_SameSuperFlushRushTier ==
  fn = "superFlushRush" => ret.legacyPayout = ret.corePayout

(***************************************************************************)
(* The messages of simulation.worker.ts                                    *)
(***************************************************************************)
\* the messages a worker has posted for its task: progress messages, then
\* at most one message that is done (with results and handDistribution) or
\* error (with message), and nothing behind it
WellFormedLog(log) ==
  \A k \in 1..Len(log) :
    /\ log[k].type \in {"progress", "done", "error"}
    /\ log[k].type = "progress" => DOMAIN log[k] = {"type", "progress"}
    /\ log[k].type = "done" =>
         k = Len(log) /\ DOMAIN log[k] = {"type", "results", "handDistribution"}
    /\ log[k].type = "error" =>
         k = Len(log) /\ DOMAIN log[k] = {"type", "message"}

\* worker i has posted done or error
TerminalPosted(i) ==
  sent[i] # <<>> /\ sent[i][Len(sent[i])].type \in {"done", "error"}

\* C32: for its task the worker posts progress messages and then one
\* terminal message, done or error and never both, and nothing after it;
\* a worker that has its task posts the terminal message unless it is
\* terminated or stopped by an error its script does not catch
C32_WorkerProtocol ==
  /\ [](\A i \in DOMAIN sent : WellFormedLog(sent[i]))
  /\ \A i \in 0..2 :
       (i \in DOMAIN workers /\ pc[i] = "loop")
         ~> (/\ i \in DOMAIN workers
             /\ \/ TerminalPosted(i)
                \/ workers[i] = "terminated"
                \/ pc[i] = "failed")

\* one worker played two hands: a progress message after each, then done
C32_Witness ==
  /\ DOMAIN workers = {0}
  /\ Len(sent[0]) = 3
  /\ sent[0][1].type = "progress" /\ sent[0][2].type = "progress"
  /\ sent[0][3].type = "done"
  /\ sent[0][3].handDistribution.totalHands = 2

(***************************************************************************)
(* Settlement of the promise of runSimulationInWorkers                     *)
(***************************************************************************)
\* the workers are spawned and every one of them has posted done or error
AllTerminalPosted ==
  DOMAIN workers # {} /\ \A i \in DOMAIN workers : TerminalPosted(i)

\* every worker has posted done
AllDonePosted ==
  \A i \in DOMAIN workers :
    sent[i] # <<>> /\ sent[i][Len(sent[i])].type = "done"

\* C33: once every worker has posted its terminal message the returned
\* promise eventually settles; it settles once; it resolves only after all
\* workers have posted done; when it is settled every spawned worker is
\* terminated; and onProgress is not called after that
C33_SettlesOnceWithAllTerminated ==
  /\ (AllTerminalPosted ~> promise.state # "pending")
  /\ [][promise.state # "pending" => promise' = promise]_vars
  /\ [](promise.state = "resolved" => AllDonePosted)
  /\ [](promise.state # "pending" =>
          /\ DOMAIN workers # {}
          /\ \A j \in DOMAIN workers : workers[j] = "terminated")
  /\ [][promise.state # "pending" => reported' = reported]_vars

\* two workers both completed: the promise is resolved after the second
\* done, both workers are terminated, and progress was reported before
C33_Witness ==
  /\ Cardinality(DOMAIN workers) = 2
  /\ promise.state = "resolved"
  /\ AllDonePosted
  /\ \A j \in DOMAIN workers : workers[j] = "terminated"
  /\ Len(reported) >= 2

(***************************************************************************)
(* runSimulationInWorker                                                   *)
(***************************************************************************)
\* the last message the one worker has posted is its error message
ErrorPosted ==
  /\ SingleWorker \in DOMAIN sent
  /\ sent[SingleWorker] # <<>>
  /\ sent[SingleWorker][Len(sent[SingleWorker])].type = "error"

\* C31: after the worker's error message has been handled the worker is
\* terminated and the promise of runSimulationInWorker is rejected with the
\* text the worker sent in the message field
C31_RejectsWithFailureText ==
  (ErrorPosted /\ promise.state = "rejected") =>
     /\ workers[SingleWorker] = "terminated"
     /\ promise.reason = sent[SingleWorker][Len(sent[SingleWorker])].message

\* what simulateHands returned on the main thread
MainThreadResult ==
  [results |-> summary[MainThread].results,
   handDistribution |-> summary[MainThread].handDistribution]

\* C34: called with the same numHands, payouts, threshold and a number or
\* string seed, runSimulationInWorker resolves with the results and the
\* handDistribution that simulateHands returns on the main thread
C34_WorkerMatchesMainThread ==
  (/\ randomSeed.type # "undefined"
   /\ pc[MainThread] = "done"
   /\ promise.state = "resolved") => promise.value = MainThreadResult

\* two hands on the string seed "ab": both are finished, the worker's done
\* message has resolved the promise with the summary of two hands that
\* simulateHands returned, and the worker is terminated
C34_Witness ==
  /\ randomSeed = StringSeed(<<"a", "b">>)
  /\ numHands = 2
  /\ pc[MainThread] = "done"
  /\ promise.state = "resolved"
  /\ promise.value = MainThreadResult
  /\ promise.value.handDistribution.totalHands = 2
  /\ workers[SingleWorker] = "terminated"
====
